---------------------------- MODULE Spec2Model ----------------------------
(***************************************************************************)
(* Verification model of the viral-fashion-agent pipeline.                 *)
(*                                                                         *)
(* The repository is a set of sequential handlers around external          *)
(* services, plus one thread-pool fan-out.  Each subsystem is modelled by  *)
(* its own group of variables and its own specification; a specification   *)
(* keeps the variables of the other subsystems at their idle values:       *)
(*                                                                         *)
(*   SpecFanout    MultiPlatformUploader.upload_to_all   (uploaders/)      *)
(*   SpecWorkflow  ViralFashionAgent.daily_workflow      (main.py)         *)
(*   SpecCallAI    ContentGenerator._call_ai / generate_script             *)
(*   SpecMedia     MediaCreator.create_video / generate_voiceover          *)
(*   SpecAdapter   the five platform adapters' upload()                    *)
(*   SpecAnalytics Database.update_analytics             (database.py)     *)
(*   SpecTrends    TrendDetector.get_fashion_trends                        *)
(*   SpecDedup     TrendDetector._deduplicate_trends                       *)
(*   SpecFallback  TrendDetector._generate_fallback_trends                 *)
(*   SpecBatch     ContentGenerator.generate_batch_content                 *)
(*   SpecKeywords  TrendDetector._extract_keywords                         *)
(*   SpecOptimize  ContentGenerator.optimize_for_platform                  *)
(*   SpecTweet     TwitterUploader.upload, the tweet text                  *)
(*   SpecTotals    Database.get_total_analytics                            *)
(*   SpecScheduler scheduled mode of main()              (main.py)         *)
(*   SpecContentId ViralFashionAgent._extract_content_id                   *)
(*                                                                         *)
(* External services (SDK calls, HTTP requests, the file system) are the   *)
(* environment: every call to one of them is a nondeterministic choice     *)
(* over the outcomes the call can have (a value, an empty value, an        *)
(* exception).  Python's None is the value NULL.                           *)
(***************************************************************************)
EXTENDS Integers, Sequences, FiniteSets, TLC

NULL == "null"

\* Python truthiness of an optional string.
Truthy(v) == v /= NULL /\ v /= ""

\* Range of a sequence.
Range(s) == {s[i] : i \in 1..Len(s)}

\* The subsequence of s whose elements are in S, in the order of s.
RECURSIVE FilterSeq(_, _)
FilterSeq(s, S) ==
    IF s = <<>> THEN <<>>
    ELSE IF Head(s) \in S THEN <<Head(s)>> \o FilterSeq(Tail(s), S)
    ELSE FilterSeq(Tail(s), S)

(***************************************************************************)
(* Publish fan-out: src/src/uploaders/__init__.py                          *)
(***************************************************************************)

\* config.PLATFORMS, in the insertion order of the dict (the iteration order
\* of self.uploaders, because _initialize_uploaders inserts in that order).
PlatformOrder == <<"youtube", "tiktok", "instagram", "twitter", "facebook">>
Platforms == Range(PlatformOrder)

\* What a platform adapter's upload() does when a worker runs it: it returns
\* a url, returns None, or raises.
UploadBehaviours == {"url", "none", "raise"}

\* The url adapter p returns on success (the shape each adapter builds).
UrlOf(p) ==
    CASE p = "youtube"   -> "https://youtube.com/shorts/X"
      [] p = "tiktok"    -> "tiktok_upload_pending"
      [] p = "instagram" -> "https://www.instagram.com/reel/X/"
      [] p = "twitter"   -> "https://twitter.com/u/status/X"
      [] p = "facebook"  -> "https://www.facebook.com/reel/X"

VARIABLES
    uploaders,    \* self.uploaders: the platforms whose adapter was initialized
    behaviour,    \* input: what each initialized adapter's upload() does
    foPc,         \* position of upload_to_all: idle, submit, collect, returned, raised
    futures,      \* per submitted platform: pending, finished, yielded
    results       \* the results dict of upload_to_all

foVars == <<uploaders, behaviour, foPc, futures, results>>

\* _initialize_uploaders: an adapter is registered when its platform is
\* enabled and its constructor did not raise.
InitializeUploaders(enabled, ctorRaises) ==
    {p \in Platforms : p \in enabled /\ p \notin ctorRaises}

\* self.uploaders.items(): the initialized platforms in dict order.
UploaderItems == FilterSeq(PlatformOrder, uploaders)

\* The empty dict.
EmptyDict == [p \in {} |-> NULL]

\* d[k] = v on a dict.
DictSet(d, k, v) == [x \in DOMAIN d \cup {k} |-> IF x = k THEN v ELSE d[x]]

FanoutInit ==
    /\ \E enabled \in SUBSET Platforms, ctorRaises \in SUBSET Platforms :
          uploaders = InitializeUploaders(enabled, ctorRaises)
    /\ behaviour \in [uploaders -> UploadBehaviours]
    /\ foPc = "idle"
    /\ futures = EmptyDict
    /\ results = EmptyDict

FanoutIdle ==
    /\ uploaders = {}
    /\ behaviour = EmptyDict
    /\ foPc = "off"
    /\ futures = EmptyDict
    /\ results = EmptyDict

\* What uploader.upload returned in the worker of platform p (only read when
\* the worker did not raise).
ReturnValue(p) == IF behaviour[p] = "url" THEN UrlOf(p) ELSE NULL

\* The except branch of the as_completed loop drops the platform's entry
\* instead of recording None.
OnFutureExceptionDropped(res, p) == res

\* Lines 85-87: the except branch of the as_completed loop records None.
OnFutureException(res, p) == DictSet(res, p, NULL)

\* The results dict is one slot shared by every platform: a write replaces
\* what the other platforms stored.
StoreResultSharedSlot(res, p, v) == [x \in DOMAIN res \cup {p} |-> v]

\* Line 78: results[platform] = result, executed by the thread that called
\* upload_to_all.
StoreResult(res, p, v) == DictSet(res, p, v)

\* Lines 59-64: results = {}; ThreadPoolExecutor(max_workers=len(self.uploaders)).
\* The executor's constructor raises ValueError when max_workers <= 0, and
\* nothing in upload_to_all catches it.
UploadToAllEnter ==
    /\ foPc = "idle"
    /\ results' = EmptyDict
    /\ futures' = EmptyDict
    /\ foPc' = IF Cardinality(uploaders) = 0 THEN "raised" ELSE "submit"
    /\ UNCHANGED <<uploaders, behaviour>>

\* Lines 67-72: the submit loop, one adapter per step, in dict order.
Submit ==
    /\ foPc = "submit"
    /\ LET n == Cardinality(DOMAIN futures)
           p == UploaderItems[n + 1]
       IN /\ futures' = DictSet(futures, p, "pending")
          /\ foPc' = IF n + 1 = Len(UploaderItems) THEN "collect" ELSE "submit"
    /\ UNCHANGED <<uploaders, behaviour, results>>

\* A pool worker runs uploader.upload for a submitted future; the future
\* finishes with the call's return value or with its exception.
WorkerRun(p) ==
    /\ foPc \in {"submit", "collect"}
    /\ p \in DOMAIN futures
    /\ futures[p] = "pending"
    /\ futures' = [futures EXCEPT ![p] = "finished"]
    /\ UNCHANGED <<uploaders, behaviour, foPc, results>>

\* Lines 74-87: as_completed yields a finished future; the main thread
\* stores its result, or None when future.result() raises.
Collect(p) ==
    /\ foPc = "collect"
    /\ p \in DOMAIN futures
    /\ futures[p] = "finished"
    /\ futures' = [futures EXCEPT ![p] = "yielded"]
    /\ results' = IF behaviour[p] = "raise"
                  THEN OnFutureException(results, p)
                  ELSE StoreResult(results, p, ReturnValue(p))
    /\ UNCHANGED <<uploaders, behaviour, foPc>>

\* Line 89: every future was yielded, the with block ends, results is returned.
UploadToAllReturn ==
    /\ foPc = "collect"
    /\ \A p \in DOMAIN futures : futures[p] = "yielded"
    /\ foPc' = "returned"
    /\ UNCHANGED <<uploaders, behaviour, futures, results>>


(***************************************************************************)
(* Orchestrator: src/main.py, ViralFashionAgent.daily_workflow             *)
(*                                                                         *)
(* The collaborators (trend detector, content generator, media creator,    *)
(* publisher, database) are the environment of the orchestrator: each call *)
(* returns one of the values its contract allows, or raises.               *)
(***************************************************************************)

\* Largest number of trends get_fashion_trends returns in the model
\* (config.DAILY_VIDEOS_COUNT bounds it in the code).
MaxTrends == 3

\* The publisher of the workflow model has the first WfPlatformCount
\* platforms of config.PLATFORMS as candidates for initialized adapters.
WfPlatformCount == 2

WfPlatforms == {PlatformOrder[k] : k \in 1..WfPlatformCount}

\* A mapping upload_to_all can return: one entry per initialized adapter (S),
\* the adapter's url for the uploads that succeeded (U), None for the others.
UploadMapping(S, U) == [p \in S |-> IF p \in U THEN UrlOf(p) ELSE NULL]

VARIABLES
    wfPc,          \* position in daily_workflow
    trends,        \* len(trends) returned by get_fashion_trends
    trendsSaved,   \* trends saved so far by the loop of lines 69-70
    batch,         \* len(content_batch)
    pkg,           \* the loop variable i of line 85
    videoId,       \* video_id of the current package (line 110)
    uploadResults, \* upload_results of the current package (line 119)
    saveIdx,       \* next item of upload_results.items() in the loop of line 125
    videoRows,     \* number of rows in the videos table
    uploadRows,    \* rows of the uploads table written by this run
    trace          \* history: the collaborator calls made, in order

wfVars == <<wfPc, trends, trendsSaved, batch, pkg, videoId, uploadResults,
            saveIdx, videoRows, uploadRows, trace>>

WorkflowInit ==
    /\ wfPc = "start"
    /\ trends = 0
    /\ trendsSaved = 0
    /\ batch = 0
    /\ pkg = 0
    /\ videoId = 0
    /\ uploadResults = EmptyDict
    /\ saveIdx = 0
    /\ videoRows = 0
    /\ uploadRows = {}
    /\ trace = <<>>

WorkflowIdle ==
    /\ wfPc = "off"
    /\ trends = 0
    /\ trendsSaved = 0
    /\ batch = 0
    /\ pkg = 0
    /\ videoId = 0
    /\ uploadResults = EmptyDict
    /\ saveIdx = 0
    /\ videoRows = 0
    /\ uploadRows = {}
    /\ trace = <<>>

\* A call event of the history: the collaborator's operation, the package it
\* was called for (0 outside the loop) and how the call ended.
Call(op, k, out) == [op |-> op, pkg |-> k, out |-> out]

\* The positions inside the try block of lines 90-150 (the loop body).
LoopPositions == {"create", "save_video", "upload", "save_uploads", "stagger"}

\* The per-package try/except is missing: every exception reaches the outer
\* handler.
ExceptHandlerNoInner(pos) == "fatal"

\* The outer try/except covers only the loop: an exception of the steps
\* around it propagates to the caller.
ExceptHandlerNoOuter(pos) == IF pos \in LoopPositions THEN "package" ELSE "none"

\* Which except clause catches an exception raised at position pos:
\* "package" is lines 148-150 (log, continue), "fatal" is lines 166-167
\* (log, fall off the end of the function).
ExceptHandler(pos) == IF pos \in LoopPositions THEN "package" ELSE "fatal"

\* The for loop of line 85 moves to the next package, or ends and control
\* reaches the summary of lines 152-164.
NextPackage ==
    IF pkg < batch
    THEN pkg' = pkg + 1 /\ wfPc' = "create"
    ELSE pkg' = pkg /\ wfPc' = "summary"

\* Control flow after an exception raised at position pos.
Raised(pos) ==
    CASE ExceptHandler(pos) = "package" -> NextPackage
      [] ExceptHandler(pos) = "fatal"   -> pkg' = pkg /\ wfPc' = "returned"
      [] OTHER                          -> pkg' = pkg /\ wfPc' = "raised"

\* The check of line 62 is missing: the run goes on with no trends (the loop
\* of lines 69-70 has nothing to save).
AfterDetectNoAbort(n) == IF n = 0 THEN "content" ELSE "save_trends"

\* Lines 62-64: no trends, the run returns.
AfterDetect(n) == IF n = 0 THEN "returned" ELSE "save_trends"

\* Lines 58-66: get_fashion_trends; an empty list ends the run.
DetectTrends ==
    /\ wfPc = "start"
    /\ \E out \in {"ok", "raise"}, n \in 0..MaxTrends :
          IF out = "raise"
          THEN /\ trace' = Append(trace, Call("get_fashion_trends", 0, "raise"))
               /\ Raised("detect")
               /\ UNCHANGED trends
          ELSE /\ trace' = Append(trace, Call("get_fashion_trends", 0, "ok"))
               /\ trends' = n
               /\ pkg' = pkg
               /\ wfPc' = AfterDetect(n)
    /\ UNCHANGED <<trendsSaved, batch, videoId, uploadResults, saveIdx,
                   videoRows, uploadRows>>

\* Lines 69-70: db.save_trend for each trend.
SaveTrend ==
    /\ wfPc = "save_trends"
    /\ \E out \in {"ok", "raise"} :
       /\ trace' = Append(trace, Call("save_trend", 0, out))
       /\ IF out = "raise"
          THEN Raised("save_trends") /\ UNCHANGED trendsSaved
          ELSE /\ trendsSaved' = trendsSaved + 1
               /\ pkg' = pkg
               /\ wfPc' = IF trendsSaved + 1 = trends THEN "content" ELSE "save_trends"
    /\ UNCHANGED <<trends, batch, videoId, uploadResults, saveIdx,
                   videoRows, uploadRows>>

\* Lines 72-80: generate_batch_content (at most one package per trend); an
\* empty batch ends the run.
GenerateBatchContent ==
    /\ wfPc = "content"
    /\ \E out \in {"ok", "raise"}, n \in 0..trends :
          IF out = "raise"
          THEN /\ trace' = Append(trace, Call("generate_batch_content", 0, "raise"))
               /\ Raised("content")
               /\ UNCHANGED batch
          ELSE /\ trace' = Append(trace, Call("generate_batch_content", 0, "ok"))
               /\ batch' = n
               /\ IF n = 0
                  THEN pkg' = pkg /\ wfPc' = "returned"
                  ELSE pkg' = 1 /\ wfPc' = "create"
    /\ UNCHANGED <<trends, trendsSaved, videoId, uploadResults, saveIdx,
                   videoRows, uploadRows>>

\* The check of line 104 is missing: the loop body goes on whatever
\* create_video returned.
AssembledAlways(success) == TRUE

\* Lines 104-106: `if not success: continue`.
Assembled(success) == success = "true"

\* Lines 90-106: create_video for package pkg; a false result skips the
\* rest of the loop body (continue).
CreateVideo ==
    /\ wfPc = "create"
    /\ \E out \in {"true", "false", "raise"} :
       /\ trace' = Append(trace, Call("create_video", pkg, out))
       /\ CASE out = "raise"    -> Raised("create")
            [] ~Assembled(out)  -> NextPackage
            [] OTHER            -> pkg' = pkg /\ wfPc' = "save_video"
    /\ UNCHANGED <<trends, trendsSaved, batch, videoId, uploadResults, saveIdx,
                   videoRows, uploadRows>>

\* Lines 108-114: db.save_video inserts the video row and returns its id.
SaveVideo ==
    /\ wfPc = "save_video"
    /\ \E out \in {"ok", "raise"} :
       /\ trace' = Append(trace, Call("save_video", pkg, out))
       /\ IF out = "raise"
          THEN Raised("save_video") /\ UNCHANGED <<videoId, videoRows>>
          ELSE /\ videoRows' = videoRows + 1
               /\ videoId' = videoRows + 1
               /\ pkg' = pkg
               /\ wfPc' = "upload"
    /\ UNCHANGED <<trends, trendsSaved, batch, uploadResults, saveIdx, uploadRows>>

\* Lines 116-122: uploader.upload_to_all.
UploadToAll ==
    /\ wfPc = "upload"
    /\ \E out \in {"ok", "raise"}, S \in SUBSET WfPlatforms :
       \E U \in SUBSET S :
          IF out = "raise"
          THEN /\ trace' = Append(trace, Call("upload_to_all", pkg, "raise"))
               /\ Raised("upload")
               /\ UNCHANGED <<uploadResults, saveIdx>>
          ELSE /\ trace' = Append(trace, Call("upload_to_all", pkg, "ok"))
               /\ uploadResults' = UploadMapping(S, U)
               /\ saveIdx' = 1
               /\ pkg' = pkg
               /\ wfPc' = "save_uploads"
    /\ UNCHANGED <<trends, trendsSaved, batch, videoId, videoRows, uploadRows>>

\* database.py line 157: the status save_upload stores with a row.
UploadStatus(url) == IF Truthy(url) THEN "success" ELSE "failed"

\* upload_results.items(), in dict order.
UploadItems == FilterSeq(PlatformOrder, DOMAIN uploadResults)

\* Lines 124-131: one iteration of the loop over upload_results.items():
\* db.save_upload is called only when the url is truthy.
SaveUpload ==
    /\ wfPc = "save_uploads"
    /\ saveIdx <= Len(UploadItems)
    /\ LET p == UploadItems[saveIdx]
       IN IF Truthy(uploadResults[p])
          THEN \E out \in {"ok", "raise"} :
                  /\ trace' = Append(trace, Call("save_upload", pkg, out))
                  /\ IF out = "raise"
                     THEN Raised("save_uploads") /\ UNCHANGED <<saveIdx, uploadRows>>
                     ELSE /\ uploadRows' = uploadRows \cup
                                 {[id |-> Cardinality(uploadRows) + 1,
                                   video |-> videoId, platform |-> p,
                                   url |-> uploadResults[p],
                                   status |-> UploadStatus(uploadResults[p])]}
                          /\ saveIdx' = saveIdx + 1
                          /\ pkg' = pkg
                          /\ wfPc' = wfPc
          ELSE /\ saveIdx' = saveIdx + 1
               /\ UNCHANGED <<trace, uploadRows, pkg, wfPc>>
    /\ UNCHANGED <<trends, trendsSaved, batch, videoId, uploadResults, videoRows>>

\* Lines 133-146: after the last item the results are logged and, when this
\* is not the last package, the run sleeps UPLOAD_STAGGER_MINUTES.
Stagger ==
    /\ wfPc = "save_uploads"
    /\ saveIdx > Len(UploadItems)
    /\ trace' = IF pkg < batch THEN Append(trace, Call("sleep", pkg, "ok")) ELSE trace
    /\ NextPackage
    /\ UNCHANGED <<trends, trendsSaved, batch, videoId, uploadResults, saveIdx,
                   videoRows, uploadRows>>

\* Lines 152-164: the summary and db.get_total_analytics, then the function
\* returns.
Summary ==
    /\ wfPc = "summary"
    /\ \E out \in {"ok", "raise"} :
       /\ trace' = Append(trace, Call("get_total_analytics", 0, out))
       /\ IF out = "raise"
          THEN Raised("summary")
          ELSE pkg' = pkg /\ wfPc' = "returned"
    /\ UNCHANGED <<trends, trendsSaved, batch, videoId, uploadResults, saveIdx,
                   videoRows, uploadRows>>


(***************************************************************************)
(* Content generator: src/src/content_generator.py                         *)
(***************************************************************************)

\* Response bodies a text-generation provider can deliver: text, text with
\* surrounding white space, white space only, the empty string.
Contents == {"script", " script ", "  ", ""}

\* str.strip() on the response bodies of the model.
Strip(c) ==
    CASE c = " script " -> "script"
      [] c = "  "       -> ""
      [] OTHER          -> c

\* The value _fallback_script returns (the fixed template).
FALLBACK == "fallback template"

\* _call_ai goes on to the next provider.
CONTINUE == "<continue>"

\* What one request to a provider of the given type can result in: a
\* response body, an exception ("raise": network error, timeout, SDK error,
\* undecodable body), a 503 or another non-200 status, and for the inference
\* endpoint a 200 body that is not a non-empty list.
Responses(type) ==
    CASE type \in {"groq", "openai"} -> Contents \cup {"raise"}
      [] type = "huggingface"        -> Contents \cup {"raise", "503", "500", "not_list"}
      [] type = "ollama"             -> Contents \cup {"raise", "500"}

VARIABLES
    providers,   \* self.providers: the provider types, in order of preference
    aiPc,        \* position: idle, calling, returned, done
    aiIdx,       \* index of the provider the loop of line 89 is at
    aiCalls,     \* history: the requests made, [type, resp], in order
    aiResult,    \* what _call_ai returned
    script       \* what generate_script returned

aiVars == <<providers, aiPc, aiIdx, aiCalls, aiResult, script>>

\* _initialize_providers: Groq and OpenAI when their key is configured and
\* the client could be built, HuggingFace always, Ollama when enabled.
InitializeProviders(groq, openai, ollama) ==
    (IF groq THEN <<"groq">> ELSE <<>>)
    \o (IF openai THEN <<"openai">> ELSE <<>>)
    \o <<"huggingface">>
    \o (IF ollama THEN <<"ollama">> ELSE <<>>)

CallAIInit ==
    /\ \E groq \in BOOLEAN, openai \in BOOLEAN, ollama \in BOOLEAN :
          providers = InitializeProviders(groq, openai, ollama)
    /\ aiPc = "idle"
    /\ aiIdx = 0
    /\ aiCalls = <<>>
    /\ aiResult = NULL
    /\ script = NULL

CallAIIdle ==
    /\ providers = <<>>
    /\ aiPc = "off"
    /\ aiIdx = 0
    /\ aiCalls = <<>>
    /\ aiResult = NULL
    /\ script = NULL

\* The except clauses return None instead of going on to the next provider.
ProviderResultNoneOnError(type, resp) ==
    CASE resp = "raise" -> NULL
      [] type \in {"groq", "openai"} -> Strip(resp)
      [] resp \in Contents /\ resp /= "" -> Strip(resp)
      [] OTHER -> CONTINUE

\* Lines 90-171, one iteration of the provider loop: the value _call_ai
\* returns from this provider, or CONTINUE.
\*   groq, openai (93-113): the stripped message content, whatever it is;
\*   huggingface (115-145), ollama (147-164): the stripped text when the
\*     status is 200 and the text is truthy;
\*   an exception (166-171), a 503 (141-143), any other outcome: next provider.
ProviderResult(type, resp) ==
    CASE resp = "raise" -> CONTINUE
      [] type \in {"groq", "openai"} -> Strip(resp)
      [] resp \in Contents /\ resp /= "" -> Strip(resp)
      [] OTHER -> CONTINUE

\* Lines 187-209: generate_script builds the prompt and enters _call_ai.
GenerateScriptBegin ==
    /\ aiPc = "idle"
    /\ aiPc' = "calling"
    /\ aiIdx' = 1
    /\ UNCHANGED <<providers, aiCalls, aiResult, script>>

\* Lines 89-171: the loop of _call_ai tries the provider it is at.
TryProvider ==
    /\ aiPc = "calling"
    /\ aiIdx <= Len(providers)
    /\ \E resp \in Responses(providers[aiIdx]) :
          LET r == ProviderResult(providers[aiIdx], resp)
          IN /\ aiCalls' = Append(aiCalls, [type |-> providers[aiIdx], resp |-> resp])
             /\ IF r = CONTINUE
                THEN aiIdx' = aiIdx + 1 /\ UNCHANGED <<aiPc, aiResult>>
                ELSE aiResult' = r /\ aiPc' = "returned" /\ UNCHANGED aiIdx
    /\ UNCHANGED <<providers, script>>

\* Lines 173-174: the loop ran off the end of self.providers.
CallAIExhausted ==
    /\ aiPc = "calling"
    /\ aiIdx > Len(providers)
    /\ aiResult' = NULL
    /\ aiPc' = "returned"
    /\ UNCHANGED <<providers, aiIdx, aiCalls, script>>

\* Lines 211-216: the script is the provider's text when it is truthy, the
\* fallback template otherwise.
GenerateScriptEnd ==
    /\ aiPc = "returned"
    /\ script' = IF Truthy(aiResult) THEN aiResult ELSE FALLBACK
    /\ aiPc' = "done"
    /\ UNCHANGED <<providers, aiIdx, aiCalls, aiResult>>

(***************************************************************************)
(* Media assembler: src/src/media_creator.py                               *)
(***************************************************************************)

\* Line 115: the TTS providers, in the order generate_voiceover tries them.
TTSProviders == <<"gtts", "edge", "coqui">>

\* What a TTS provider's call can do: write the audio file and complete
\* ("file"), complete without writing it ("nofile"), raise before writing
\* anything ("raise"), raise after it created the file ("raise_partial").
TTSOutcomes == {"file", "nofile", "raise", "raise_partial"}

\* Line 196: fetch_stock_videos keeps at most videos[:3].
MaxStockClips == 3

\* Line 259: create_slideshow_from_images keeps at most images[:5].
MaxSlides == 5

ClipNames == <<"clip1", "clip2", "clip3", "clip4", "clip5">>

\* The first n clips of video_clips.
ClipSet(n) == {ClipNames[k] : k \in 1..n}

\* The stages of create_video, in order.
Stages == <<"voiceover", "probe", "fetch", "concat", "set_audio", "captions",
            "branding", "export">>

VARIABLES
    mcPc,          \* position in create_video
    ttsIdx,        \* index of the provider the loop of line 117 is at
    ttsCalls,      \* history: the TTS calls made, [provider, outcome], in order
    voiceover,     \* what generate_voiceover returned
    audioExists,   \* the temporary audio file <output>_audio.mp3 exists
    openRes,       \* the clips and decoders that are open
    clips,         \* len(video_clips)
    slideshow,     \* create_slideshow_from_images was called
    stagesRun,     \* history: the stages entered, in order
    stagesFailed,  \* history: the stages that failed
    mcResult       \* what create_video returned

mcVars == <<mcPc, ttsIdx, ttsCalls, voiceover, audioExists, openRes, clips,
            slideshow, stagesRun, stagesFailed, mcResult>>

MediaInit ==
    /\ mcPc = "idle"
    /\ ttsIdx = 0
    /\ ttsCalls = <<>>
    /\ voiceover = NULL
    /\ audioExists = FALSE
    /\ openRes = {}
    /\ clips = 0
    /\ slideshow = FALSE
    /\ stagesRun = <<>>
    /\ stagesFailed = {}
    /\ mcResult = NULL

MediaIdle ==
    /\ mcPc = "off"
    /\ ttsIdx = 0
    /\ ttsCalls = <<>>
    /\ voiceover = NULL
    /\ audioExists = FALSE
    /\ openRes = {}
    /\ clips = 0
    /\ slideshow = FALSE
    /\ stagesRun = <<>>
    /\ stagesFailed = {}
    /\ mcResult = NULL

\* write_videofile is wrapped in a handler of its own that logs and goes on,
\* like add_captions and add_branding.
StageIsFatalExportSwallowed(stage) == stage \notin {"captions", "branding", "export"}

\* Whether a failure of the stage ends create_video: add_captions (lines
\* 330-332) and add_branding (357-359) catch their own exceptions and return
\* the clip they were given; an exception of any other stage reaches the
\* handler of lines 107-109.
StageIsFatal(stage) == stage \notin {"captions", "branding"}

\* Lines 107-109: log and return False; nothing is closed or removed.
Fail(stage) ==
    /\ stagesFailed' = stagesFailed \cup {stage}
    /\ mcResult' = "false"
    /\ mcPc' = "returned"

\* The stage failed: create_video ends when the failure is fatal and goes on
\* to the stage at position next otherwise.
FailOrGoOn(stage, next) ==
    IF StageIsFatal(stage)
    THEN Fail(stage)
    ELSE /\ stagesFailed' = stagesFailed \cup {stage}
         /\ mcPc' = next
         /\ UNCHANGED mcResult

\* Lines 51-56: create_video enters generate_voiceover.
CreateVideoBegin ==
    /\ mcPc = "idle"
    /\ mcPc' = "voiceover"
    /\ ttsIdx' = 1
    /\ stagesRun' = Append(stagesRun, "voiceover")
    /\ UNCHANGED <<ttsCalls, voiceover, audioExists, openRes, clips, slideshow,
                   stagesFailed, mcResult>>

\* Lines 117-161: one iteration of the provider loop of generate_voiceover.
\* A call that completes returns os.path.exists(output_path) at once; an
\* exception goes on to the next provider.
TryTTS ==
    /\ mcPc = "voiceover"
    /\ ttsIdx <= Len(TTSProviders)
    /\ \E out \in TTSOutcomes :
          /\ ttsCalls' = Append(ttsCalls, [provider |-> TTSProviders[ttsIdx], outcome |-> out])
          /\ audioExists' = (audioExists \/ out \in {"file", "raise_partial"})
          /\ IF out \in {"raise", "raise_partial"}
             THEN ttsIdx' = ttsIdx + 1 /\ UNCHANGED <<voiceover, mcPc>>
             ELSE /\ voiceover' = IF audioExists' THEN "true" ELSE "false"
                  /\ mcPc' = "voiceover_done"
                  /\ UNCHANGED ttsIdx
    /\ UNCHANGED <<openRes, clips, slideshow, stagesRun, stagesFailed, mcResult>>

\* Lines 163-164: every provider raised.
TTSExhausted ==
    /\ mcPc = "voiceover"
    /\ ttsIdx > Len(TTSProviders)
    /\ voiceover' = "false"
    /\ mcPc' = "voiceover_done"
    /\ UNCHANGED <<ttsIdx, ttsCalls, audioExists, openRes, clips, slideshow,
                   stagesRun, stagesFailed, mcResult>>

\* Lines 56-58: a failed voiceover returns False.
VoiceoverCheck ==
    /\ mcPc = "voiceover_done"
    /\ IF voiceover = "false"
       THEN Fail("voiceover") /\ UNCHANGED stagesRun
       ELSE /\ mcPc' = "probe"
            /\ stagesRun' = Append(stagesRun, "probe")
            /\ UNCHANGED <<stagesFailed, mcResult>>
    /\ UNCHANGED <<ttsIdx, ttsCalls, voiceover, audioExists, openRes, clips, slideshow>>

\* Lines 60-62: AudioFileClip(audio_path) opens the audio decoder.
Probe ==
    /\ mcPc = "probe"
    /\ \E out \in {"ok", "raise"} :
          IF out = "raise"
          THEN Fail("probe") /\ UNCHANGED <<openRes, stagesRun>>
          ELSE /\ openRes' = openRes \cup {"audio_clip"}
               /\ mcPc' = "fetch"
               /\ stagesRun' = Append(stagesRun, "fetch")
               /\ UNCHANGED <<stagesFailed, mcResult>>
    /\ UNCHANGED <<ttsIdx, ttsCalls, voiceover, audioExists, clips, slideshow>>

\* create_video goes on to concatenate whatever fetch_stock_videos returned.
AfterFetchNoSlideshow(n) == "concat"

\* Lines 68-70: `if not video_clips` sends create_video to the slideshow.
AfterFetch(n) == IF n = 0 THEN "slideshow" ELSE "concat"

\* Lines 64-66 and 166-231: fetch_stock_videos never raises; it returns the
\* clips it opened (none without a key, on an API error or an empty result).
FetchStockVideos ==
    /\ mcPc = "fetch"
    /\ \E n \in 0..MaxStockClips :
          /\ clips' = n
          /\ openRes' = openRes \cup ClipSet(n)
          /\ mcPc' = AfterFetch(n)
          /\ stagesRun' = IF n = 0 THEN stagesRun ELSE Append(stagesRun, "concat")
    /\ UNCHANGED <<ttsIdx, ttsCalls, voiceover, audioExists, slideshow,
                   stagesFailed, mcResult>>

\* Lines 68-70 and 233-287: with no stock clip, create_slideshow_from_images
\* (which never raises) supplies the clips.
CreateSlideshow ==
    /\ mcPc = "slideshow"
    /\ slideshow' = TRUE
    /\ \E n \in 0..MaxSlides :
          /\ clips' = n
          /\ openRes' = openRes \cup ClipSet(n)
    /\ mcPc' = "concat"
    /\ stagesRun' = Append(stagesRun, "concat")
    /\ UNCHANGED <<ttsIdx, ttsCalls, voiceover, audioExists, stagesFailed, mcResult>>

\* Lines 72-73: concatenate_videoclips raises on an empty list.
Concatenate ==
    /\ mcPc = "concat"
    /\ \E out \in (IF clips = 0 THEN {"raise"} ELSE {"ok", "raise"}) :
          IF out = "raise"
          THEN Fail("concat") /\ UNCHANGED <<openRes, stagesRun>>
          ELSE /\ openRes' = openRes \cup {"final_video"}
               /\ mcPc' = "set_audio"
               /\ stagesRun' = Append(stagesRun, "set_audio")
               /\ UNCHANGED <<stagesFailed, mcResult>>
    /\ UNCHANGED <<ttsIdx, ttsCalls, voiceover, audioExists, clips, slideshow>>

\* Lines 75-76: final_video.set_audio(audio_clip).
SetAudio ==
    /\ mcPc = "set_audio"
    /\ \E out \in {"ok", "raise"} :
          IF out = "raise"
          THEN Fail("set_audio") /\ UNCHANGED stagesRun
          ELSE /\ mcPc' = "captions"
               /\ stagesRun' = Append(stagesRun, "captions")
               /\ UNCHANGED <<stagesFailed, mcResult>>
    /\ UNCHANGED <<ttsIdx, ttsCalls, voiceover, audioExists, openRes, clips, slideshow>>

\* Lines 78-79 and 289-332: add_captions.
AddCaptions ==
    /\ mcPc = "captions"
    /\ \E out \in {"ok", "raise"} :
          IF out = "raise"
          THEN FailOrGoOn("captions", "branding")
          ELSE mcPc' = "branding" /\ UNCHANGED <<stagesFailed, mcResult>>
    /\ stagesRun' = IF mcPc' = "branding" THEN Append(stagesRun, "branding") ELSE stagesRun
    /\ UNCHANGED <<ttsIdx, ttsCalls, voiceover, audioExists, openRes, clips, slideshow>>

\* Lines 81-82 and 334-359: add_branding.
AddBranding ==
    /\ mcPc = "branding"
    /\ \E out \in {"ok", "raise"} :
          IF out = "raise"
          THEN FailOrGoOn("branding", "export")
          ELSE mcPc' = "export" /\ UNCHANGED <<stagesFailed, mcResult>>
    /\ stagesRun' = IF mcPc' = "export" THEN Append(stagesRun, "export") ELSE stagesRun
    /\ UNCHANGED <<ttsIdx, ttsCalls, voiceover, audioExists, openRes, clips, slideshow>>

\* Lines 84-93: write_videofile.
Export ==
    /\ mcPc = "export"
    /\ \E out \in {"ok", "raise"} :
          IF out = "raise"
          THEN FailOrGoOn("export", "cleanup")
          ELSE mcPc' = "cleanup" /\ UNCHANGED <<stagesFailed, mcResult>>
    /\ UNCHANGED <<ttsIdx, ttsCalls, voiceover, audioExists, openRes, clips,
                   slideshow, stagesRun>>

\* Lines 95-105: close the audio clip, the final video and every clip of
\* video_clips, remove the temporary audio file, return True.
Cleanup ==
    /\ mcPc = "cleanup"
    /\ openRes' = openRes \ ({"audio_clip", "final_video"} \cup ClipSet(clips))
    /\ audioExists' = FALSE
    /\ mcResult' = "true"
    /\ mcPc' = "returned"
    /\ UNCHANGED <<ttsIdx, ttsCalls, voiceover, clips, slideshow, stagesRun, stagesFailed>>

(***************************************************************************)
(* Platform adapters: src/src/uploaders/{youtube,tiktok,instagram,twitter, *)
(* facebook}.py and base.py                                                *)
(***************************************************************************)

\* What the adapter's authenticate() does in the current environment:
\* returns True, returns False, or raises.  Only YouTubeUploader.authenticate
\* has statements outside a try block (loading the token file, refreshing
\* the credentials, the OAuth flow, saving the token); TikTok's returns
\* False exactly when no session id is configured.
AuthOutcomes(p) == IF p = "youtube" THEN {"ok", "fail", "raise"} ELSE {"ok", "fail"}

\* What validate_video does: True, False (too large, too long, unreadable),
\* or an exception of os.path.getsize (line 48 of base.py is outside the try
\* block), raised when the file does not exist.
ValidateOutcomes == {"ok", "fail", "raise"}

\* What the upload request does: the platform accepts the video, or the
\* request fails (an error status or an exception, both caught in upload).
RequestOutcomes == {"accepted", "error"}

VARIABLES
    adPlatform,   \* the adapter whose upload() runs
    adSession,    \* the adapter holds a client from an earlier authenticate()
    adAuth,       \* input: what authenticate() does, see AuthOutcomes
    adPc,         \* position in upload: idle, auth, validate, send, returned, raised
    adEvents,     \* history: authenticate, auth_failed, validate,
                  \*          validation_failed, request
    adResult      \* what upload returned

adVars == <<adPlatform, adSession, adAuth, adPc, adEvents, adResult>>

\* Whether the adapter keeps a client between uploads that lets upload()
\* skip authenticate(): youtube (self.youtube), instagram (client.user_id),
\* twitter (self.api and self.client).  TikTok never sets self.api and
\* Facebook authenticates on every upload.
KeepsSession(p) == p \in {"youtube", "instagram", "twitter"}

AdapterInit ==
    /\ adPlatform \in Platforms
    /\ adSession \in (IF KeepsSession(adPlatform) THEN BOOLEAN ELSE {FALSE})
    /\ adAuth \in AuthOutcomes(adPlatform)
    /\ adPc = "idle"
    /\ adEvents = {}
    /\ adResult = NULL

AdapterIdle ==
    /\ adPlatform = "youtube"
    /\ adSession = FALSE
    /\ adAuth = "ok"
    /\ adPc = "off"
    /\ adEvents = {}
    /\ adResult = NULL

\* Whether upload() calls authenticate() first:
\*   youtube.py 63-65, instagram.py 50-52, twitter.py 51-54: unless the
\*     client is already there;
\*   facebook.py 40-41: always;
\*   tiktok.py 40-53: never.
CallsAuthenticate(p, session) ==
    CASE p = "tiktok"   -> FALSE
      [] p = "facebook" -> TRUE
      [] OTHER          -> ~session

\* upload() begins: the authentication step when the adapter has one.
UploadBegin ==
    /\ adPc = "idle"
    /\ adPc' = IF CallsAuthenticate(adPlatform, adSession) THEN "auth" ELSE "validate"
    /\ UNCHANGED <<adPlatform, adSession, adAuth, adEvents, adResult>>

\* authenticate(): False returns None from upload, an exception leaves
\* upload (it is outside every try block of upload).
Authenticate ==
    /\ adPc = "auth"
    /\ CASE adAuth = "ok" ->
              /\ adEvents' = adEvents \cup {"authenticate"}
              /\ adSession' = KeepsSession(adPlatform)
              /\ adPc' = "validate"
              /\ UNCHANGED adResult
         [] adAuth = "fail" ->
              /\ adEvents' = adEvents \cup {"authenticate", "auth_failed"}
              /\ adPc' = "returned"
              /\ adResult' = NULL
              /\ UNCHANGED adSession
         [] adAuth = "raise" ->
              /\ adEvents' = adEvents \cup {"authenticate", "auth_failed"}
              /\ adPc' = "raised"
              /\ UNCHANGED <<adSession, adResult>>
    /\ UNCHANGED <<adPlatform, adAuth>>

\* validate_video (base.py 42-66), called outside the try block of upload.
Validate ==
    /\ adPc = "validate"
    /\ \E out \in ValidateOutcomes :
          CASE out = "ok" ->
                 /\ adEvents' = adEvents \cup {"validate"}
                 /\ adPc' = "send"
                 /\ UNCHANGED adResult
            [] out = "fail" ->
                 /\ adEvents' = adEvents \cup {"validate", "validation_failed"}
                 /\ adPc' = "returned"
                 /\ adResult' = NULL
            [] out = "raise" ->
                 /\ adEvents' = adEvents \cup {"validate", "validation_failed"}
                 /\ adPc' = "raised"
                 /\ UNCHANGED adResult
    /\ UNCHANGED <<adPlatform, adSession, adAuth>>

\* The try block of upload: the upload request is sent; the url on success,
\* None on an error status or a caught exception.
SendRequest ==
    /\ adPc = "send"
    /\ adEvents' = adEvents \cup {"request"}
    /\ \E out \in RequestOutcomes :
          adResult' = IF out = "accepted" THEN UrlOf(adPlatform) ELSE NULL
    /\ adPc' = "returned"
    /\ UNCHANGED <<adPlatform, adSession, adAuth>>

(***************************************************************************)
(* Analytics table: src/src/database.py, Database.update_analytics         *)
(***************************************************************************)

\* Largest upload id update_analytics is called with in the model.
MaxUploadId == 2

UploadIds == 1..MaxUploadId

\* The keys update_analytics reads from the stats dict.
StatKeys == {"views", "likes", "comments", "shares"}

\* The counter values an adapter's get_analytics reports in the model.
StatValues == {100, 200}

\* The stats dicts update_analytics is called with: complete ones (the four
\* counters pairwise different), ones with views only, and the empty dict.
StatsInputs ==
    {[k \in StatKeys |-> CASE k = "views"    -> v
                           [] k = "likes"    -> w + 1
                           [] k = "comments" -> w + 2
                           [] k = "shares"   -> w + 3] : v, w \in StatValues}
       \cup [{"views"} -> StatValues]
       \cup {[k \in {} |-> 0]}

\* dict.get(key, default).
Get(d, k, default) == IF k \in DOMAIN d THEN d[k] ELSE default

VARIABLES
    anTable,     \* the rows of the analytics table
    anNextId,    \* the next AUTOINCREMENT id of the table
    anLast,      \* history: per upload id, the stats of its most recent call
    anCalls      \* history: per upload id, "none", "once" or "many" calls

anVars == <<anTable, anNextId, anLast, anCalls>>

AnalyticsInit ==
    /\ anTable = {}
    /\ anNextId = 1
    /\ anLast = [u \in {} |-> 0]
    /\ anCalls = [u \in UploadIds |-> "none"]

AnalyticsIdle ==
    /\ anTable = {}
    /\ anNextId = 0
    /\ anLast = [u \in {} |-> 0]
    /\ anCalls = [u \in {} |-> "none"]

\* update_analytics never finds a row: it inserts on every call.
ExistingNever(table, u) == FALSE

\* Lines 168-171: SELECT id FROM analytics WHERE upload_id = ?; fetchone()
\* is truthy when some row has this upload id.
Existing(table, u) == \E r \in table : r.upload_id = u

\* The values one call stores (lines 178-181 and 190-193).
StoredValues(stats) ==
    [views    |-> Get(stats, "views", 0),
     likes    |-> Get(stats, "likes", 0),
     comments |-> Get(stats, "comments", 0),
     shares   |-> Get(stats, "shares", 0)]

\* Lines 172-183: UPDATE ... WHERE upload_id = ? rewrites the counters of
\* every row of this upload id.
UpdateRows(table, u, stats) ==
    {IF r.upload_id = u
     THEN [id |-> r.id, upload_id |-> u, values |-> StoredValues(stats)]
     ELSE r : r \in table}

\* Lines 185-194: INSERT a row with the next id.
InsertRow(table, id, u, stats) ==
    table \cup {[id |-> id, upload_id |-> u, values |-> StoredValues(stats)]}

\* Database.update_analytics(upload_id, stats), lines 162-196.
UpdateAnalytics(u, stats) ==
    /\ IF Existing(anTable, u)
       THEN /\ anTable' = UpdateRows(anTable, u, stats)
            /\ anNextId' = anNextId
       ELSE /\ anTable' = InsertRow(anTable, anNextId, u, stats)
            /\ anNextId' = anNextId + 1
    /\ anLast' = [x \in DOMAIN anLast \cup {u} |-> IF x = u THEN stats ELSE anLast[x]]
    /\ anCalls' = [anCalls EXCEPT ![u] = IF @ = "none" THEN "once" ELSE "many"]


(***************************************************************************)
(* Trend detector: src/src/trend_detector.py                               *)
(*                                                                         *)
(* A title is the sequence of its words (what str.split() returns); a      *)
(* trend record has a source, a title, a score and keywords.  The lists of *)
(* the detector are sequences of records; sorted, unique and result hold   *)
(* positions in all_trends, so that two equal records stay apart.          *)
(***************************************************************************)

\* Largest number of trends in one input of _deduplicate_trends.
MaxDedupLen == 3

\* Largest number of records one source returns in one query.
MaxPerSource == 1

\* The values of num_trends get_fashion_trends is called with.
NumTrendsInputs == 0..2

\* Number of templates of _generate_fallback_trends in the model (the list
\* of lines 236-309 has more; the code treats every template alike).
MaxTemplates == 3

\* str.lower() leaves the case of a word as it is.
LowerIdentity(w) == w

\* str.lower() on the words of the model.
Lower(w) ==
    CASE w = "Red"   -> "red"
      [] w = "Dress" -> "dress"
      [] OTHER       -> w

\* title.lower(), word by word.
LowerTitle(t) == [k \in 1..Len(t) |-> Lower(t[k])]

\* Ten different words, for titles whose overlap ratio is exactly 0.7.
TenWords == <<"a", "b", "c", "d", "e", "f", "g", "h", "i", "j">>

\* The titles of the inputs of _deduplicate_trends: case variants, a
\* reordering, titles of 5, 7 and 10 words sharing their first words, a
\* title sharing words only with the 7-word title, and the empty title.
DedupTitles ==
    {<<"red", "dress">>, <<"Red", "Dress">>, <<"dress", "red">>,
     SubSeq(TenWords, 1, 5), SubSeq(TenWords, 1, 7), TenWords,
     <<"f", "g">>, <<>>}

\* The titles the sources report in the model.
SourceTitles == {<<"red", "dress">>, <<"Red", "Dress">>, <<"a", "b", "c">>}

\* The words _is_fashion_related accepts (lines 361-372: a fashion keyword
\* is a substring of the word).
FashionWords == {"dress", "outfit", "trends"}

\* The words with len(word) > 3 (line 356).
LongWords == {"dress", "outfit", "ideas", "petite", "styling", "hacks",
              "sunglasses", "trends", "belt", "date", "night"}

\* s[:n] of Python, for every integer n.
Slice(s, n) ==
    IF n >= 0
    THEN SubSeq(s, 1, IF n < Len(s) THEN n ELSE Len(s))
    ELSE SubSeq(s, 1, IF Len(s) + n > 0 THEN Len(s) + n ELSE 0)

\* _extract_keywords, lines 342-359: the lower-cased words that are longer
\* than 3 characters and fashion related, at most five of them.
ExtractKeywords(title) ==
    Slice(SelectSeq(LowerTitle(title),
                    LAMBDA w : w \in LongWords /\ w \in FashionWords), 5)

\* The trend record of a source.
Trend(source, title, score) ==
    [source |-> source, title |-> title, score |-> score,
     keywords |-> ExtractKeywords(title)]

\* Line 395 with >= in place of >.
IsSimilarInclusive(title, seen_title) ==
    LET title_words == Range(title)
        seen_words  == Range(seen_title)
    IN /\ Cardinality(title_words) > 0
       /\ 10 * Cardinality(title_words \cap seen_words) >= 7 * Cardinality(title_words)

\* Lines 390-395: overlap = |title_words & seen_words| / |title_words| and
\* overlap > 0.7.  The float quotient m/n exceeds the float 0.7 exactly when
\* 10*m > 7*n (7/10 rounds to the same float as the literal 0.7).
IsSimilar(title, seen_title) ==
    LET title_words == Range(title)
        seen_words  == Range(seen_title)
    IN /\ Cardinality(title_words) > 0
       /\ 10 * Cardinality(title_words \cap seen_words) > 7 * Cardinality(title_words)

\* The loop of lines 379-401 from position k on: kept holds the positions
\* accepted so far, seen is seen_titles.
RECURSIVE DeduplicateFrom(_, _, _, _)
DeduplicateFrom(recs, k, kept, seen) ==
    IF k > Len(recs)
    THEN kept
    ELSE LET title == LowerTitle(recs[k].title)
         IN IF title \in seen
            THEN DeduplicateFrom(recs, k + 1, kept, seen)
            ELSE IF \E seen_title \in seen : IsSimilar(title, seen_title)
                 THEN DeduplicateFrom(recs, k + 1, kept, seen)
                 ELSE DeduplicateFrom(recs, k + 1, Append(kept, k),
                                      seen \cup {title})

\* _deduplicate_trends, lines 374-403: the positions of the trends it keeps.
DeduplicateTrends(recs) == DeduplicateFrom(recs, 1, <<>>, {})

\* The sort puts a record before the earlier records of equal score.
StaysBeforeTiesReversed(old, new) == old > new

\* list.sort(key=score, reverse=True) is stable: an earlier record stays
\* before a later one unless its score is smaller.
StaysBefore(old, new) == old >= new

\* Insert position i into the sorted positions idxs.
RECURSIVE InsertByScore(_, _, _)
InsertByScore(recs, idxs, i) ==
    IF Len(idxs) = 0
    THEN <<i>>
    ELSE IF StaysBefore(recs[Head(idxs)].score, recs[i].score)
         THEN <<Head(idxs)>> \o InsertByScore(recs, Tail(idxs), i)
         ELSE <<i>> \o idxs

\* Line 78: the positions of the first n records in sorted order.
RECURSIVE SortByScore(_, _)
SortByScore(recs, n) ==
    IF n = 0 THEN <<>> ELSE InsertByScore(recs, SortByScore(recs, n - 1), n)

\* The records at the given positions of a list.
At(recs, idxs) == [k \in 1..Len(idxs) |-> recs[idxs[k]]]

\* The sources in the order get_fashion_trends queries them (lines 67-70).
Sources == <<"reddit", "google_trends", "twitter", "tiktok">>

\* The sources that need a client object (lines 90, 122, 169).
ClientSources == {"reddit", "google_trends", "twitter"}

\* The scores a source gives: reddit at least 100 (line 99), Google Trends
\* the default 80 (line 137), twitter more than 50 (line 189).
SourceScores(src) ==
    CASE src = "reddit"        -> {100}
      [] src = "google_trends" -> {80}
      [] src = "twitter"       -> {100}
      [] OTHER                 -> {}

\* The lists of records one query of a source can have collected.
SourceRecordLists(src) ==
    UNION {[1..n -> {Trend(src, t, sc) : t \in SourceTitles, sc \in SourceScores(src)}] :
             n \in 0..MaxPerSource}

\* The templates of the model, as titles: the second and the fourth hold no
\* fashion keyword ("Petite styling hacks", "Belt styling ideas").
TemplateList ==
    <<<<"outfit", "ideas">>, <<"petite", "styling", "hacks">>,
      <<"sunglasses", "trends">>, <<"belt", "styling", "ideas">>,
      <<"date", "night", "outfit", "ideas">>>>

\* trend_templates, lines 236-309.
TrendTemplates == SubSeq(TemplateList, 1, MaxTemplates)

\* The orders random.shuffle can leave the templates in (line 312).
Shuffles ==
    {p \in [1..MaxTemplates -> 1..MaxTemplates] :
        \A a, b \in 1..MaxTemplates : p[a] = p[b] => a = b}

\* random.randint(100, 500), line 327: both ends can be drawn.
FallbackScoreMin == 100
FallbackScoreMax == 500
FallbackScores == {FallbackScoreMin, 300, FallbackScoreMax}

\* Line 324.
DefaultKeywords == <<"fashion", "style", "outfit">>

\* The default of lines 323-324 is missing.
FallbackKeywordsNoDefault(title) == ExtractKeywords(title)

\* Lines 322-324: the keywords of a fallback record.
FallbackKeywords(title) ==
    IF Len(ExtractKeywords(title)) = 0 THEN DefaultKeywords ELSE ExtractKeywords(title)

\* _generate_fallback_trends, lines 231-340, for the shuffle order perm and
\* the scores drawn for the loop's iterations.
GenerateFallbackTrends(perm, scores, num_trends) ==
    LET shuffled == [k \in 1..MaxTemplates |-> TrendTemplates[perm[k]]]
        taken    == Slice(shuffled, num_trends)
    IN [k \in 1..Len(taken) |->
          [source |-> "fallback", title |-> taken[k], score |-> scores[k],
           keywords |-> FallbackKeywords(taken[k])]]

VARIABLES
    tdPc,        \* position: a source to query, finish, returned, or the
                 \* input / done positions of the single functions
    numTrends,   \* the argument num_trends
    clients,     \* the sources whose client object was initialized
    srcStatus,   \* history: per source pending, unconfigured, ok, raised
    allTrends,   \* all_trends (the input list, for _deduplicate_trends)
    sorted,      \* positions of all_trends in sorted order
    unique,      \* positions of all_trends kept by _deduplicate_trends
    result       \* positions of all_trends of the returned list

tdVars == <<tdPc, numTrends, clients, srcStatus, allTrends, sorted, unique, result>>

\* get_fashion_trends is about to start on a detector whose clients were
\* initialized or not (_initialize_apis, lines 27-55).
TrendsInit ==
    /\ tdPc = "reddit"
    /\ numTrends \in NumTrendsInputs
    /\ clients \in SUBSET ClientSources
    /\ srcStatus = [s \in Range(Sources) |-> "pending"]
    /\ allTrends = <<>>
    /\ sorted = <<>>
    /\ unique = <<>>
    /\ result = <<>>

\* _deduplicate_trends is about to be called on a list of trends.
DedupInit ==
    /\ tdPc = "dedup_input"
    /\ numTrends = 0
    /\ clients = {}
    /\ srcStatus = [s \in Range(Sources) |-> "pending"]
    /\ \E titles \in UNION {[1..n -> DedupTitles] : n \in 0..MaxDedupLen} :
          allTrends = [k \in 1..Len(titles) |-> Trend("reddit", titles[k], 100)]
    /\ sorted = <<>>
    /\ unique = <<>>
    /\ result = <<>>

\* _generate_fallback_trends is about to be called with num_trends.
FallbackInit ==
    /\ tdPc = "fallback_input"
    /\ numTrends \in 0..(MaxTemplates + 2)
    /\ clients = {}
    /\ srcStatus = [s \in Range(Sources) |-> "pending"]
    /\ allTrends = <<>>
    /\ sorted = <<>>
    /\ unique = <<>>
    /\ result = <<>>

TrendsIdle ==
    /\ tdPc = "off"
    /\ numTrends = 0
    /\ clients = {}
    /\ srcStatus = [s \in {} |-> "pending"]
    /\ allTrends = <<>>
    /\ sorted = <<>>
    /\ unique = <<>>
    /\ result = <<>>

\* What a _get_*_trends method returns when its try block raised: the
\* except clause only logs, and `return trends` returns what the loop had
\* appended before the exception (lines 113-116, 160-163, 200-203).
ReturnAfterExcept(collected) == collected

\* One _get_*_trends call, lines 67-69: an empty list when the client is
\* missing; otherwise the records collected, whether the query ran to its
\* end or raised on the way.
QuerySource(src, next) ==
    /\ tdPc = src
    /\ tdPc' = next
    /\ IF src \notin clients
       THEN /\ srcStatus' = [srcStatus EXCEPT ![src] = "unconfigured"]
            /\ allTrends' = allTrends
       ELSE \E collected \in SourceRecordLists(src), raised \in BOOLEAN :
               /\ srcStatus' = [srcStatus EXCEPT ![src] = IF raised THEN "raised" ELSE "ok"]
               /\ allTrends' = allTrends \o
                                 (IF raised THEN ReturnAfterExcept(collected) ELSE collected)
    /\ UNCHANGED <<numTrends, clients, sorted, unique, result>>

QueryReddit == QuerySource("reddit", "google_trends")

QueryGoogle == QuerySource("google_trends", "twitter")

QueryTwitter == QuerySource("twitter", "tiktok")

\* _get_tiktok_trends, lines 205-229: the request succeeds or raises, and
\* the method returns the empty list either way.
QueryTikTok ==
    /\ tdPc = "tiktok"
    /\ tdPc' = "finish"
    /\ \E raised \in BOOLEAN :
          srcStatus' = [srcStatus EXCEPT !["tiktok"] = IF raised THEN "raised" ELSE "ok"]
    /\ UNCHANGED <<numTrends, clients, allTrends, sorted, unique, result>>

\* Lines 77-84 on the list all: the sort, the deduplication and the
\* truncation to num_trends.
SortDedupTruncate(all) ==
    LET order == SortByScore(all, Len(all))
        kept  == DeduplicateTrends(At(all, order))
    IN /\ allTrends' = all
       /\ sorted' = order
       /\ unique' = At(order, kept)
       /\ result' = Slice(At(order, kept), numTrends)

\* Lines 72-84: the fallback when no source gave a record (`if not
\* all_trends`), then the sort, the deduplication and the truncation.
FinishTrends ==
    /\ tdPc = "finish"
    /\ IF Len(allTrends) = 0
       THEN \E perm \in Shuffles, scores \in [1..MaxTemplates -> FallbackScores] :
               SortDedupTruncate(GenerateFallbackTrends(perm, scores, numTrends))
       ELSE SortDedupTruncate(allTrends)
    /\ tdPc' = "returned"
    /\ UNCHANGED <<numTrends, clients, srcStatus>>

\* One call of _deduplicate_trends on the input list.
CallDeduplicateTrends ==
    /\ tdPc = "dedup_input"
    /\ tdPc' = "dedup_done"
    /\ unique' = DeduplicateTrends(allTrends)
    /\ result' = DeduplicateTrends(allTrends)
    /\ UNCHANGED <<numTrends, clients, srcStatus, allTrends, sorted>>

\* One call of _generate_fallback_trends(num_trends).
CallGenerateFallbackTrends ==
    /\ tdPc = "fallback_input"
    /\ tdPc' = "fallback_done"
    /\ \E perm \in Shuffles, scores \in [1..MaxTemplates -> FallbackScores] :
          /\ allTrends' = GenerateFallbackTrends(perm, scores, numTrends)
          /\ result' = [k \in 1..Len(GenerateFallbackTrends(perm, scores, numTrends)) |-> k]
    /\ UNCHANGED <<numTrends, clients, srcStatus, sorted, unique>>


(***************************************************************************)
(* Content packages: src/src/content_generator.py, generate_metadata and   *)
(* generate_batch_content                                                  *)
(***************************************************************************)

\* A text is the sequence of its characters; Fill(c, n) is c repeated n times.
Fill(c, n) == [i \in 1..n |-> c]

\* sub in text
Contains(text, sub) ==
    \E i \in 1..(Len(text) - Len(sub) + 1) :
        SubSeq(text, i, i + Len(sub) - 1) = sub

\* Line 349: title = trend['title'][:60]
MaxTitleChars == 60

\* Line 353: 'description': script[:200]
MaxDescriptionChars == 200

\* Lines 334-336 and 336-345: the number of characters _fallback_script puts
\* before and after the trend title.
FallbackHeaderChars == 42
FallbackFooterChars == 151

\* Lines 332-345: _fallback_script, the template with the title in it.
FallbackScript(trend) ==
    Fill("h", FallbackHeaderChars) \o trend.title \o Fill("f", FallbackFooterChars)

\* What _call_ai returns: None, or the text of the provider that answered.
AINone == [none |-> TRUE, text |-> <<>>]
AIText(t) == [none |-> FALSE, text |-> t]

\* `if script:` / `if result:` on a value _call_ai returned.
AITruthy(r) == ~r.none /\ r.text /= <<>>

\* The trends generate_batch_content is given: a title that is short or
\* longer than 60 characters; keywords that are missing, empty (what
\* _extract_keywords returns for a title without a fashion term of more than
\* three letters) or present.
BatchTrends ==
    { [title |-> Fill("t", 5), keywords |-> <<>>],
      [title |-> Fill("t", 5)],
      [title |-> Fill("t", MaxTitleChars + 1), keywords |-> <<"dress", "style">>] }

\* The number of trends in one call of generate_batch_content.
BatchLengths == 1..2

\* What _call_ai returns for the script prompt.
ScriptResults ==
    { AINone, AIText(<<>>), AIText(Fill("s", 30)),
      AIText(Fill("s", MaxDescriptionChars + 1)) }

\* JSON documents a provider can write: an object with any of the requested
\* keys, an array, or text that is not JSON.
JsonTitles == {Fill("T", 10), Fill("T", MaxTitleChars + 1)}
JsonDescriptions == {Fill("D", MaxDescriptionChars + 1)}
JsonHashtags == <<"#ootd", "style">>

JsonObjects ==
    { [k \in keys |-> CASE k = "title" -> t
                        [] k = "description" -> d
                        [] k = "hashtags" -> JsonHashtags] :
          keys \in SUBSET {"title", "description", "hashtags"},
          t \in JsonTitles, d \in JsonDescriptions }

Docs ==
    { [kind |-> "object", obj |-> o] : o \in JsonObjects }
    \cup { [kind |-> "array", obj |-> <<>>], [kind |-> "invalid", obj |-> <<>>] }

NoDoc == [kind |-> "none", obj |-> <<>>]

\* A response is a sequence of parts: prose, a ```json marker, a ``` marker,
\* a document.
Prose == [t |-> "prose", doc |-> NoDoc]
FenceJson == [t |-> "fence_json", doc |-> NoDoc]
Fence == [t |-> "fence", doc |-> NoDoc]
DocPart(d) == [t |-> "doc", doc |-> d]

\* The ways a provider wraps the document.
Wrappings(d) ==
    { <<DocPart(d)>>,
      <<Prose, FenceJson, DocPart(d), Fence, Prose>>,
      <<Fence, DocPart(d), Fence>>,
      <<FenceJson, DocPart(d)>>,
      <<Prose, DocPart(d)>> }

\* What _call_ai returns for the metadata prompt.
MetadataResults ==
    {AINone, AIText(<<>>)} \cup UNION { {AIText(w) : w \in Wrappings(d)} : d \in Docs }

\* Both markers contain ```.
IsFence(part) == part.t \in {"fence", "fence_json"}

IsFenceJson(part) == part.t = "fence_json"

\* The position of the first part of resp, from position from on, that
\* satisfies the test; Len(resp) + 1 when there is none.
FirstWhere(resp, from, Test(_)) ==
    IF \E i \in from..Len(resp) : Test(resp[i])
    THEN CHOOSE i \in from..Len(resp) :
            /\ Test(resp[i])
            /\ \A j \in from..(i - 1) : ~Test(resp[j])
    ELSE Len(resp) + 1

\* Lines 251-254: the text between the first ```json and the next ```, else
\* the text between the first two ```, else the whole response.
ExtractJson(resp) ==
    IF \E i \in 1..Len(resp) : IsFenceJson(resp[i])
    THEN LET a == FirstWhere(resp, 1, IsFenceJson)
             b == FirstWhere(resp, a + 1, IsFence)
         IN SubSeq(resp, a + 1, b - 1)
    ELSE IF \E i \in 1..Len(resp) : IsFence(resp[i])
    THEN LET a == FirstWhere(resp, 1, IsFence)
             b == FirstWhere(resp, a + 1, IsFence)
         IN SubSeq(resp, a + 1, b - 1)
    ELSE resp

\* Line 256: json.loads raises unless the text is exactly one document.
JsonLoads(text) ==
    IF Len(text) = 1 /\ text[1].t = "doc" /\ text[1].doc.kind /= "invalid"
    THEN [ok |-> TRUE, value |-> text[1].doc]
    ELSE [ok |-> FALSE, value |-> NoDoc]

\* Line 260: tag.replace('#', '')
StripHash(tag) == IF tag = "#ootd" THEN "ootd" ELSE tag

\* Line 355: the tags of the fallback when the trend has no 'keywords' key.
DefaultTags == <<"fashion", "style", "trend">>

\* Line 356
DefaultHashtags == <<"#fashion", "#style", "#trending", "#ootd", "#fashiontips">>

\* Lines 347-356: _fallback_metadata
FallbackMetadata(scr, trend) ==
    [ title |-> Slice(trend.title, MaxTitleChars),
      description |-> Slice(scr, MaxDescriptionChars),
      tags |-> Get(trend, "keywords", DefaultTags),
      hashtags |-> DefaultHashtags ]

\* Lines 256-263: the parsed document with 'tags' added, as the provider wrote
\* it; an exception (json.loads, .get on an array, metadata['title'] of an
\* object without title) is caught at line 264.
ParsedMetadata(value) ==
    IF value.kind = "object" /\ "title" \in DOMAIN value.obj
    THEN [ok |-> TRUE,
          metadata |-> LET tags == Get(value.obj, "hashtags", <<>>)
                       IN DictSet(value.obj, "tags",
                                  [i \in 1..Len(tags) |-> StripHash(tags[i])])]
    ELSE [ok |-> FALSE, metadata |-> <<>>]

\* Lines 246-270: generate_metadata, given what _call_ai returned.
GenerateMetadata(aiResp, scr, trend) ==
    IF AITruthy(aiResp)
    THEN LET loaded == JsonLoads(ExtractJson(aiResp.text))
             parsed == IF loaded.ok THEN ParsedMetadata(loaded.value)
                       ELSE [ok |-> FALSE, metadata |-> <<>>]
         IN IF parsed.ok THEN parsed.metadata ELSE FallbackMetadata(scr, trend)
    ELSE FallbackMetadata(scr, trend)

\* Lines 211-216: generate_script, given what _call_ai returned.
GenerateScript(aiResp, trend) ==
    IF AITruthy(aiResp) THEN aiResp.text ELSE FallbackScript(trend)

VARIABLES
    mdPc,          \* position in generate_batch_content
    mdTrends,      \* the trends argument
    mdIdx,         \* index of the trend the loop of line 281 is at
    mdScript,      \* script of the current iteration
    mdScriptAI,    \* what _call_ai returned for the script prompt
    mdMetaAI,      \* what _call_ai returned for the last metadata prompt
    contentBatch   \* content_batch

mdVars == <<mdPc, mdTrends, mdIdx, mdScript, mdScriptAI, mdMetaAI, contentBatch>>

BatchInit ==
    /\ mdPc = "script"
    /\ \E n \in BatchLengths : mdTrends \in [1..n -> BatchTrends]
    /\ mdIdx = 1
    /\ mdScript = <<>>
    /\ mdScriptAI = AINone
    /\ mdMetaAI = AINone
    /\ contentBatch = <<>>

BatchIdle ==
    /\ mdPc = "off"
    /\ mdTrends = <<>>
    /\ mdIdx = 1
    /\ mdScript = <<>>
    /\ mdScriptAI = AINone
    /\ mdMetaAI = AINone
    /\ contentBatch = <<>>

\* Line 284: script = self.generate_script(trend)
BatchGenerateScript ==
    /\ mdPc = "script"
    /\ mdIdx <= Len(mdTrends)
    /\ \E r \in ScriptResults :
          /\ mdScriptAI' = r
          /\ mdScript' = GenerateScript(r, mdTrends[mdIdx])
    /\ mdPc' = "metadata"
    /\ UNCHANGED <<mdTrends, mdIdx, mdMetaAI, contentBatch>>

\* Lines 285-292: metadata = self.generate_metadata(script, trend) and the
\* package is appended.
BatchGenerateMetadata ==
    /\ mdPc = "metadata"
    /\ \E r \in MetadataResults :
          /\ mdMetaAI' = r
          /\ contentBatch' =
                Append(contentBatch,
                       [script |-> mdScript,
                        metadata |-> GenerateMetadata(r, mdScript, mdTrends[mdIdx]),
                        trend |-> mdTrends[mdIdx],
                        status |-> "ready"])
    /\ mdIdx' = mdIdx + 1
    /\ mdPc' = "script"
    /\ UNCHANGED <<mdTrends, mdScript, mdScriptAI>>

\* Lines 298-299: the loop is over, content_batch is returned.
BatchReturn ==
    /\ mdPc = "script"
    /\ mdIdx > Len(mdTrends)
    /\ mdPc' = "returned"
    /\ UNCHANGED <<mdTrends, mdIdx, mdScript, mdScriptAI, mdMetaAI, contentBatch>>

(***************************************************************************)
(* Keyword extraction on the characters of a text:                         *)
(* src/src/trend_detector.py, _extract_keywords and _is_fashion_related    *)
(***************************************************************************)

\* The numbers of pieces the input texts are put together from.
KwPieceCounts == 0..4

\* The pieces the input texts are put together from: parts of "http", the
\* markers, white space, vocabulary words of four and of three letters, and
\* an upper-case word.
KwPieces ==
    { <<"h", "t">>, <<"t", "p">>, <<"h", "t", "t", "p">>,
      <<"#">>, <<"@">>, <<" ">>,
      <<"w", "e", "a", "r">>, <<"W", "E", "A", "R">>, <<"f", "i", "t">> }

\* Lines 363-369: fashion_keywords, the two of them the pieces can spell.
FashionKeywords == { <<"w", "e", "a", "r">>, <<"f", "i", "t">> }

RECURSIVE Flatten(_)
\* The characters of a sequence of pieces.
Flatten(pieces) ==
    IF pieces = <<>> THEN <<>> ELSE Head(pieces) \o Flatten(Tail(pieces))

\* A text with more keywords than the cap of line 359.
SixKeywords == Flatten([i \in 1..12 |-> IF i % 2 = 1 THEN <<"w", "e", "a", "r">> ELSE <<" ">>])

\* The texts _extract_keywords is called with.
KwInputs ==
    {SixKeywords}
    \cup UNION { {Flatten(p) : p \in [1..n -> KwPieces]} : n \in KwPieceCounts }

\* str.lower() on one character.
LowerChar(c) ==
    CASE c = "W" -> "w" [] c = "E" -> "e" [] c = "A" -> "a" [] c = "R" -> "r"
      [] OTHER -> c

\* Line 348: text.lower()
LowerText(text) == [i \in 1..Len(text) |-> LowerChar(text[i])]

\* \S and \w of the regular expressions, for the characters of the model.
IsNonSpace(c) == c /= " "
IsWordChar(c) == c \notin {" ", "#", "@"}

\* The last position of the run of characters satisfying the test that
\* starts at position i (i - 1 when text[i] does not satisfy it).
RunEnd(text, i, Test(_)) ==
    IF \E j \in i..Len(text) : ~Test(text[j])
    THEN (CHOOSE j \in i..Len(text) :
             /\ ~Test(text[j])
             /\ \A k \in i..(j - 1) : Test(text[k])) - 1
    ELSE Len(text)

\* Line 348, r'http\S+|@\S+|#' tried at position i: the position after the
\* match, or i when there is no match at i.
MatchEnd(text, i) ==
    IF /\ i + 4 <= Len(text)
       /\ SubSeq(text, i, i + 3) = <<"h", "t", "t", "p">>
       /\ IsNonSpace(text[i + 4])
    THEN RunEnd(text, i + 4, IsNonSpace) + 1
    ELSE IF text[i] = "@" /\ i + 1 <= Len(text) /\ IsNonSpace(text[i + 1])
    THEN RunEnd(text, i + 1, IsNonSpace) + 1
    ELSE IF text[i] = "#"
    THEN i + 1
    ELSE i

RECURSIVE RegexSub(_, _)
\* Line 348: re.sub(pattern, '', text), one scan from left to right; what a
\* removal leaves behind is not scanned again.
RegexSub(text, i) ==
    IF i > Len(text) THEN <<>>
    ELSE LET e == MatchEnd(text, i)
         IN IF e > i THEN RegexSub(text, e)
            ELSE <<text[i]>> \o RegexSub(text, i + 1)

RECURSIVE FindAllWords(_, _)
\* Line 351: re.findall(r'\b\w+\b', cleaned), the maximal runs of word
\* characters.
FindAllWords(text, i) ==
    IF i > Len(text) THEN <<>>
    ELSE IF IsWordChar(text[i])
    THEN LET e == RunEnd(text, i, IsWordChar)
         IN <<SubSeq(text, i, e)>> \o FindAllWords(text, e + 1)
    ELSE FindAllWords(text, i + 1)

\* Lines 361-372: a fashion keyword is a substring of the lower-cased text.
IsFashionRelated(text) ==
    \E keyword \in FashionKeywords : Contains(LowerText(text), keyword)

\* Line 356: len(word) > 3 and self._is_fashion_related(word)
IsFashionTerm(word) == Len(word) > 3 /\ IsFashionRelated(word)

\* Line 359: fashion_terms[:5]
MaxKeywords == 5

\* Lines 342-359: _extract_keywords on the characters of a text.
ExtractKeywordsOfText(text) ==
    Slice(SelectSeq(FindAllWords(RegexSub(LowerText(text), 1), 1), IsFashionTerm),
          MaxKeywords)

RECURSIVE JoinSpaces(_)
\* ' '.join(words)
JoinSpaces(words) ==
    IF words = <<>> THEN <<>>
    ELSE IF Len(words) = 1 THEN words[1]
    ELSE words[1] \o <<" ">> \o JoinSpaces(Tail(words))

VARIABLES
    kwPc,      \* input, extracted, again
    kwText,    \* the text argument
    kwOut,     \* _extract_keywords(text)
    kwAgain    \* _extract_keywords(' '.join(kwOut))

kwVars == <<kwPc, kwText, kwOut, kwAgain>>

KeywordsInit ==
    /\ kwPc = "input"
    /\ kwText \in KwInputs
    /\ kwOut = <<>>
    /\ kwAgain = <<>>

KeywordsIdle ==
    /\ kwPc = "off"
    /\ kwText = <<>>
    /\ kwOut = <<>>
    /\ kwAgain = <<>>

\* keywords = detector._extract_keywords(text)
CallExtractKeywords ==
    /\ kwPc = "input"
    /\ kwOut' = ExtractKeywordsOfText(kwText)
    /\ kwPc' = "extracted"
    /\ UNCHANGED <<kwText, kwAgain>>

\* detector._extract_keywords(' '.join(keywords))
CallExtractKeywordsAgain ==
    /\ kwPc = "extracted"
    /\ kwAgain' = ExtractKeywordsOfText(JoinSpaces(kwOut))
    /\ kwPc' = "again"
    /\ UNCHANGED <<kwText, kwOut>>

(***************************************************************************)
(* Per-platform metadata: src/src/content_generator.py,                    *)
(* optimize_for_platform                                                   *)
(***************************************************************************)

\* Line 313: descriptions longer than this are cut for TikTok.
TikTokDescLimit == 100

\* Line 314: desc[:97] + "..."
TikTokDescKept == 97

\* Lines 316, 321, 327: the number of tags each platform takes.
TikTokTagCount == 5
InstagramTagCount == 30
TwitterTagCount == 3

\* Line 326: metadata['description'][:200]
TwitterDescKept == 200

\* The descriptions and tags lists of the metadata optimize_for_platform is
\* called with.
OptDescriptions == {Fill("A", n) : n \in {50, 100, 101, 200, 300}}

OptTagLists ==
    { <<>>,
      << <<"x">> >>,
      << Fill("f", 7), Fill("s", 5) >>,
      [i \in 1..6 |-> Fill("f", 7)],
      [i \in 1..3 |-> Fill("l", 30)] }

OptTitles == {Fill("T", 10)}

OptPlatforms == {"youtube", "tiktok", "instagram", "twitter", "facebook"}

\* ' '.join([f'#{tag}' for tag in tags[:n]])
Hashtags(tags, n) ==
    JoinSpaces([i \in 1..Len(Slice(tags, n)) |-> <<"#">> \o tags[i]])

\* Lines 312-314: the description TikTok's caption starts with.
TikTokDesc(desc) ==
    IF Len(desc) > TikTokDescLimit
    THEN Slice(desc, TikTokDescKept) \o <<".", ".", ".">>
    ELSE desc

\* Line 326: the description the tweet text starts with.
TwitterDesc(desc) == Slice(desc, TwitterDescKept)

\* Lines 301-330: optimize_for_platform
OptimizeForPlatform(metadata, platform) ==
    CASE platform = "youtube" ->
           [metadata EXCEPT
              !.title = metadata.title \o <<" ", "#", "S", "h", "o", "r", "t", "s">>,
              !.description = metadata.description
                  \o <<"\n", "\n", "#", "S", "h", "o", "r", "t", "s", " ",
                       "#", "F", "a", "s", "h", "i", "o", "n">>]
      [] platform = "tiktok" ->
           [metadata EXCEPT
              !.description = TikTokDesc(metadata.description) \o <<"\n", "\n">>
                  \o Hashtags(metadata.tags, TikTokTagCount)]
      [] platform = "instagram" ->
           [metadata EXCEPT
              !.description = metadata.description \o <<"\n", "\n">>
                  \o Hashtags(metadata.tags, InstagramTagCount)]
      [] platform = "twitter" ->
           [metadata EXCEPT
              !.description = TwitterDesc(metadata.description) \o <<" ">>
                  \o Hashtags(metadata.tags, TwitterTagCount)]
      [] OTHER -> metadata

VARIABLES
    opPc,         \* input, returned
    opMetadata,   \* the metadata argument
    opPlatform,   \* the platform argument
    optimized     \* what optimize_for_platform returned

opVars == <<opPc, opMetadata, opPlatform, optimized>>

OptimizeInit ==
    /\ opPc = "input"
    /\ opMetadata \in [title : OptTitles, description : OptDescriptions, tags : OptTagLists]
    /\ opPlatform \in OptPlatforms
    /\ optimized = opMetadata

OptimizeIdle ==
    /\ opPc = "off"
    /\ opMetadata = <<>>
    /\ opPlatform = "none"
    /\ optimized = <<>>

\* optimized = generator.optimize_for_platform(metadata, platform)
CallOptimizeForPlatform ==
    /\ opPc = "input"
    /\ optimized' = OptimizeForPlatform(opMetadata, opPlatform)
    /\ opPc' = "returned"
    /\ UNCHANGED <<opMetadata, opPlatform>>

(***************************************************************************)
(* Tweet text: src/src/uploaders/twitter.py, TwitterUploader.upload        *)
(***************************************************************************)

\* Lines 71 and 77: the length limit of a tweet.
TweetLimit == 280

\* The longest tags list of the metadata.
MaxTweetTags == 3

\* The descriptions and tags of the metadata TwitterUploader.upload is
\* called with: descriptions from empty to longer than the limit; tags that
\* take 3, 10 and 22 characters of the tweet.
TweetDescriptions == {Fill("A", n) : n \in {0, 270, 279, 280, 300}}

TweetTags == {Fill("a", 1), Fill("b", 8), Fill("c", 20)}

TweetTagLists == UNION { [1..n -> TweetTags] : n \in 0..MaxTweetTags }

\* Line 76: f"{tweet_text} #{tag}"
WithHashtag(text, tag) == text \o <<" ", "#">> \o tag

\* The tags the loop still looks at after a tag that does not fit, had line
\* 80 been `continue`.
AfterTooLongContinue(rest) == rest

\* Lines 79-80: break, the loop looks at no further tag.
AfterTooLong(rest) == <<>>

RECURSIVE AppendHashtags(_, _)
\* Lines 75-80: the loop over the tags.
AppendHashtags(text, tags) ==
    IF tags = <<>> THEN text
    ELSE LET test_text == WithHashtag(text, Head(tags))
         IN IF Len(test_text) <= TweetLimit
            THEN AppendHashtags(test_text, Tail(tags))
            ELSE AppendHashtags(text, AfterTooLong(Tail(tags)))

\* Lines 71-80: the text of the tweet.
TweetText(metadata) ==
    AppendHashtags(Slice(Get(metadata, "description", <<>>), TweetLimit),
                   Get(metadata, "tags", <<>>))

VARIABLES
    twPc,         \* media_uploaded, tweeted, failed
    twMetadata,   \* the metadata argument of upload
    createdTweet  \* history: the text arguments of the create_tweet calls

twVars == <<twPc, twMetadata, createdTweet>>

\* The state after media_upload returned (line 68).  A metadata without
\* 'description' or 'tags' is read with the defaults of lines 71 and 74.
TweetInit ==
    /\ twPc = "media_uploaded"
    /\ \/ twMetadata \in [description : TweetDescriptions, tags : TweetTagLists]
       \/ twMetadata \in [description : TweetDescriptions]
       \/ twMetadata \in [tags : TweetTagLists]
    /\ createdTweet = <<>>

TweetIdle ==
    /\ twPc = "off"
    /\ twMetadata = <<>>
    /\ createdTweet = <<>>

\* Lines 70-92: the text is put together and passed to create_tweet, which
\* answers or raises (lines 94-96).
CreateTweet ==
    /\ twPc = "media_uploaded"
    /\ createdTweet' = Append(createdTweet, TweetText(twMetadata))
    /\ twPc' \in {"tweeted", "failed"}
    /\ UNCHANGED twMetadata

(***************************************************************************)
(* Aggregate totals: src/src/database.py, Database.get_total_analytics     *)
(***************************************************************************)

\* A value of an SQL result row: NULL, or an integer.
SqlNull == [null |-> TRUE, val |-> 0]
SqlInt(n) == [null |-> FALSE, val |-> n]

\* The column of every row is read as its views column.
ColumnValueViews(r, column) == r.values.views

\* The value of a counter column of an analytics row.
ColumnValue(r, column) == r.values[column]

RECURSIVE SumRows(_, _)
\* The sum of a column over a set of rows.
SumRows(rows, column) ==
    IF rows = {} THEN 0
    ELSE LET r == CHOOSE x \in rows : TRUE
         IN ColumnValue(r, column) + SumRows(rows \ {r}, column)

\* Lines 203-206: SUM(column) is NULL over no rows.
SqlSum(table, column) ==
    IF table = {} THEN SqlNull ELSE SqlInt(SumRows(table, column))

\* Line 207: COUNT(DISTINCT upload_id)
SqlCountDistinctUploads(table) == SqlInt(Cardinality({r.upload_id : r \in table}))

\* Lines 213-217: `row[i] or 0`, 0 for NULL and for 0.
OrZero(x) == IF x.null \/ x.val = 0 THEN 0 ELSE x.val

\* Lines 198-219: get_total_analytics on the rows of the table.
TotalAnalytics(table) ==
    [total_views    |-> OrZero(SqlSum(table, "views")),
     total_likes    |-> OrZero(SqlSum(table, "likes")),
     total_comments |-> OrZero(SqlSum(table, "comments")),
     total_shares   |-> OrZero(SqlSum(table, "shares")),
     total_uploads  |-> OrZero(SqlCountDistinctUploads(table))]

VARIABLES
    taPc,     \* idle, returned
    totals    \* what get_total_analytics returned

taVars == <<taPc, totals>>

TotalsInit ==
    /\ taPc = "idle"
    /\ totals = TotalAnalytics({})

TotalsIdle ==
    /\ taPc = "off"
    /\ totals = TotalAnalytics({})

\* stats = db.get_total_analytics()
GetTotalAnalytics ==
    /\ taPc = "idle"
    /\ totals' = TotalAnalytics(anTable)
    /\ taPc' = "returned"

\* The caller is done with the totals it read; the store goes on changing.
DropTotals ==
    /\ taPc' = "idle"
    /\ totals' = TotalAnalytics({})

(***************************************************************************)
(* Scheduled mode: src/main.py, main and the three scheduled jobs          *)
(***************************************************************************)

\* The largest number of job runs of one process in the model.
MaxSchedRuns == 3

\* Lines 270-276: the jobs registered with the scheduler.
ScheduledJobs == {"daily_workflow", "update_analytics", "generate_report"}

\* The collaborator calls of each job that can raise.
CollaboratorCalls(job) ==
    CASE job = "daily_workflow" ->
           {"get_fashion_trends", "save_trend", "generate_batch_content",
            "get_total_analytics"}
      [] job = "update_analytics" ->
           {"get_recent_uploads", "get_analytics", "db.update_analytics",
            "get_platform_performance"}
      [] job = "generate_report" ->
           {"get_total_analytics", "get_platform_performance"}

\* The jobs whose calls are inside `try: ... except Exception` (lines 53-167,
\* 173-194); generate_report (217-239) has no try statement.
HasExceptHandler(job) == job \in {"daily_workflow", "update_analytics"}

\* An exception raised by a call of the job leaves the job.
Escapes(job, raisedAt) == raisedAt /= "none" /\ ~HasExceptHandler(job)

VARIABLES
    schState,   \* running (the loop of lines 281-283), crashed, stopped
    schRuns     \* history: the job runs, [job, raisedAt], in order

schVars == <<schState, schRuns>>

\* Lines 265-278: no command-line argument, the jobs are registered.
SchedulerInit ==
    /\ schState = "running"
    /\ schRuns = <<>>

SchedulerIdle ==
    /\ schState = "off"
    /\ schRuns = <<>>

\* Line 282: schedule.run_pending() runs a due job in the loop's thread; an
\* exception leaving the job leaves run_pending and the while loop, whose try
\* statement handles KeyboardInterrupt only (lines 280-285).
RunPending ==
    /\ schState = "running"
    /\ Len(schRuns) < MaxSchedRuns
    /\ \E job \in ScheduledJobs :
       \E raisedAt \in CollaboratorCalls(job) \cup {"none"} :
          /\ schRuns' = Append(schRuns, [job |-> job, raisedAt |-> raisedAt])
          /\ schState' = IF Escapes(job, raisedAt) THEN "crashed" ELSE "running"

\* Lines 284-285: Ctrl+C ends the loop.
KeyboardInterrupt ==
    /\ schState = "running"
    /\ schState' = "stopped"
    /\ UNCHANGED schRuns

(***************************************************************************)
(* Content ids: src/main.py, _extract_content_id, and the URLs the         *)
(* adapters of src/src/uploaders/ return                                   *)
(***************************************************************************)

\* The longest content id, in characters.
MaxIdLen == 2

\* The characters of content ids: platform ids are made of letters, digits,
\* '_' and '-'.
IdChars == {"A", "1", "_"}

ContentIds == UNION { [1..n -> IdChars] : n \in 0..MaxIdLen }

\* A Python value that is None or a str.
NoneStr == [none |-> TRUE, text |-> <<>>]
Str(t) == [none |-> FALSE, text |-> t]

\* youtube.py line 119: f"https://youtube.com/shorts/{video_id}"
YoutubeUrlPrefix ==
    <<"h", "t", "t", "p", "s", ":", "/", "/", "y", "o", "u", "t", "u", "b",
      "e", ".", "c", "o", "m", "/", "s", "h", "o", "r", "t", "s", "/">>

\* instagram.py line 81: f"https://www.instagram.com/reel/{media.code}/"
InstagramUrlPrefix ==
    <<"h", "t", "t", "p", "s", ":", "/", "/", "w", "w", "w", ".", "i", "n",
      "s", "t", "a", "g", "r", "a", "m", ".", "c", "o", "m", "/", "r", "e",
      "e", "l", "/">>

\* twitter.py line 89: f"https://twitter.com/{username}/status/{tweet_id}",
\* for the user name "user".
TwitterUrlPrefix ==
    <<"h", "t", "t", "p", "s", ":", "/", "/", "t", "w", "i", "t", "t", "e",
      "r", ".", "c", "o", "m", "/", "u", "s", "e", "r", "/", "s", "t", "a",
      "t", "u", "s", "/">>

\* facebook.py line 101: f"https://www.facebook.com/reel/{video_id}"
FacebookUrlPrefix ==
    <<"h", "t", "t", "p", "s", ":", "/", "/", "w", "w", "w", ".", "f", "a",
      "c", "e", "b", "o", "o", "k", ".", "c", "o", "m", "/", "r", "e", "e",
      "l", "/">>

\* tiktok.py line 111: the placeholder TikTokUploader.upload returns.
TikTokPlaceholder ==
    <<"t", "i", "k", "t", "o", "k", "_", "u", "p", "l", "o", "a", "d", "_",
      "p", "e", "n", "d", "i", "n", "g">>

\* The URL the adapter of the platform returns for the content id x.
AdapterUrl(platform, x) ==
    CASE platform = "youtube"   -> YoutubeUrlPrefix \o x
      [] platform = "instagram" -> InstagramUrlPrefix \o x \o <<"/">>
      [] platform = "twitter"   -> TwitterUrlPrefix \o x
      [] platform = "facebook"  -> FacebookUrlPrefix \o x
      [] platform = "tiktok"    -> TikTokPlaceholder

\* The separators of lines 203-211.
ShortsSep == <<"/", "s", "h", "o", "r", "t", "s", "/">>
ReelSep == <<"/", "r", "e", "e", "l", "/">>
StatusSep == <<"/", "s", "t", "a", "t", "u", "s", "/">>
SlashSep == <<"/">>

\* The positions at which sep occurs in s.
Occurrences(s, sep) ==
    {i \in 1..(Len(s) - Len(sep) + 1) : SubSeq(s, i, i + Len(sep) - 1) = sep}

RECURSIVE SplitLast(_, _)
\* s.split(sep)[-1]: what follows the last of the occurrences of sep that
\* str.split finds from left to right, without overlap.
SplitLast(s, sep) ==
    IF Occurrences(s, sep) = {} THEN s
    ELSE LET i == CHOOSE k \in Occurrences(s, sep) :
                     \A m \in Occurrences(s, sep) : k <= m
         IN SplitLast(SubSeq(s, i + Len(sep), Len(s)), sep)

\* str.rstrip('/') leaves the text as it is.
RStripSlashNoOp(s) == s

RECURSIVE RStripSlash(_)
\* Line 205: str.rstrip('/')
RStripSlash(s) ==
    IF s /= <<>> /\ s[Len(s)] = "/" THEN RStripSlash(SubSeq(s, 1, Len(s) - 1)) ELSE s

\* Lines 196-215: _extract_content_id
ExtractContentId(url, platform) ==
    IF url.none \/ url.text = <<>> THEN NoneStr
    ELSE CASE platform = "youtube"   -> Str(SplitLast(url.text, ShortsSep))
           [] platform = "instagram" -> Str(RStripSlash(SplitLast(url.text, ReelSep)))
           [] platform = "twitter"   -> Str(SplitLast(url.text, StatusSep))
           [] platform = "facebook"  -> Str(SplitLast(url.text, ReelSep))
           [] platform = "tiktok"    -> Str(SplitLast(url.text, SlashSep))
           [] OTHER                  -> NoneStr

VARIABLES
    ciPc,        \* input, extracted
    ciPlatform,  \* the platform argument
    ciId,        \* the content id the adapter built the url from
    ciUrl,       \* the url argument
    ciResult     \* what _extract_content_id returned

ciVars == <<ciPc, ciPlatform, ciId, ciUrl, ciResult>>

\* The url of an upload: what the platform's adapter returned for a content
\* id, or None, or the empty string.
ContentIdInit ==
    /\ ciPc = "input"
    /\ ciPlatform \in Platforms
    /\ ciId \in ContentIds
    /\ \/ ciUrl = Str(AdapterUrl(ciPlatform, ciId))
       \/ ciUrl = NoneStr /\ ciId = <<>>
       \/ ciUrl = Str(<<>>) /\ ciId = <<>>
    /\ ciResult = NoneStr

ContentIdIdle ==
    /\ ciPc = "off"
    /\ ciPlatform = "none"
    /\ ciId = <<>>
    /\ ciUrl = NoneStr
    /\ ciResult = NoneStr

\* content_id = self._extract_content_id(url, platform)
CallExtractContentId ==
    /\ ciPc = "input"
    /\ ciResult' = ExtractContentId(ciUrl, ciPlatform)
    /\ ciPc' = "extracted"
    /\ UNCHANGED <<ciPlatform, ciId, ciUrl>>

(***************************************************************************)
(* Specifications                                                          *)
(***************************************************************************)

vars == <<foVars, wfVars, aiVars, mcVars, adVars, anVars, tdVars, mdVars, kwVars, opVars, twVars, taVars, schVars, ciVars>>

\* upload_to_all on one MultiPlatformUploader.
FanoutNext ==
    \/ UploadToAllEnter /\ UNCHANGED <<wfVars, aiVars, mcVars, adVars, anVars, tdVars, mdVars, kwVars, opVars, twVars, taVars, schVars, ciVars>>
    \/ Submit /\ UNCHANGED <<wfVars, aiVars, mcVars, adVars, anVars, tdVars, mdVars, kwVars, opVars, twVars, taVars, schVars, ciVars>>
    \/ \E p \in Platforms : WorkerRun(p) /\ UNCHANGED <<wfVars, aiVars, mcVars, adVars, anVars, tdVars, mdVars, kwVars, opVars, twVars, taVars, schVars, ciVars>>
    \/ \E p \in Platforms : Collect(p) /\ UNCHANGED <<wfVars, aiVars, mcVars, adVars, anVars, tdVars, mdVars, kwVars, opVars, twVars, taVars, schVars, ciVars>>
    \/ UploadToAllReturn /\ UNCHANGED <<wfVars, aiVars, mcVars, adVars, anVars, tdVars, mdVars, kwVars, opVars, twVars, taVars, schVars, ciVars>>

SpecFanoutInit == FanoutInit /\ WorkflowIdle /\ CallAIIdle /\ MediaIdle /\ AdapterIdle /\ AnalyticsIdle /\ TrendsIdle /\ BatchIdle /\ KeywordsIdle /\ OptimizeIdle /\ TweetIdle /\ TotalsIdle /\ SchedulerIdle /\ ContentIdIdle

SpecFanout == SpecFanoutInit /\ [][FanoutNext]_vars

\* One run of daily_workflow.
WorkflowNext ==
    \/ DetectTrends /\ UNCHANGED <<foVars, aiVars, mcVars, adVars, anVars, tdVars, mdVars, kwVars, opVars, twVars, taVars, schVars, ciVars>>
    \/ SaveTrend /\ UNCHANGED <<foVars, aiVars, mcVars, adVars, anVars, tdVars, mdVars, kwVars, opVars, twVars, taVars, schVars, ciVars>>
    \/ GenerateBatchContent /\ UNCHANGED <<foVars, aiVars, mcVars, adVars, anVars, tdVars, mdVars, kwVars, opVars, twVars, taVars, schVars, ciVars>>
    \/ CreateVideo /\ UNCHANGED <<foVars, aiVars, mcVars, adVars, anVars, tdVars, mdVars, kwVars, opVars, twVars, taVars, schVars, ciVars>>
    \/ SaveVideo /\ UNCHANGED <<foVars, aiVars, mcVars, adVars, anVars, tdVars, mdVars, kwVars, opVars, twVars, taVars, schVars, ciVars>>
    \/ UploadToAll /\ UNCHANGED <<foVars, aiVars, mcVars, adVars, anVars, tdVars, mdVars, kwVars, opVars, twVars, taVars, schVars, ciVars>>
    \/ SaveUpload /\ UNCHANGED <<foVars, aiVars, mcVars, adVars, anVars, tdVars, mdVars, kwVars, opVars, twVars, taVars, schVars, ciVars>>
    \/ Stagger /\ UNCHANGED <<foVars, aiVars, mcVars, adVars, anVars, tdVars, mdVars, kwVars, opVars, twVars, taVars, schVars, ciVars>>
    \/ Summary /\ UNCHANGED <<foVars, aiVars, mcVars, adVars, anVars, tdVars, mdVars, kwVars, opVars, twVars, taVars, schVars, ciVars>>

SpecWorkflowInit == FanoutIdle /\ WorkflowInit /\ CallAIIdle /\ MediaIdle /\ AdapterIdle /\ AnalyticsIdle /\ TrendsIdle /\ BatchIdle /\ KeywordsIdle /\ OptimizeIdle /\ TweetIdle /\ TotalsIdle /\ SchedulerIdle /\ ContentIdIdle

SpecWorkflow == SpecWorkflowInit /\ [][WorkflowNext]_vars

\* One call of generate_script, with the _call_ai it makes.
CallAINext ==
    \/ GenerateScriptBegin /\ UNCHANGED <<foVars, wfVars, mcVars, adVars, anVars, tdVars, mdVars, kwVars, opVars, twVars, taVars, schVars, ciVars>>
    \/ TryProvider /\ UNCHANGED <<foVars, wfVars, mcVars, adVars, anVars, tdVars, mdVars, kwVars, opVars, twVars, taVars, schVars, ciVars>>
    \/ CallAIExhausted /\ UNCHANGED <<foVars, wfVars, mcVars, adVars, anVars, tdVars, mdVars, kwVars, opVars, twVars, taVars, schVars, ciVars>>
    \/ GenerateScriptEnd /\ UNCHANGED <<foVars, wfVars, mcVars, adVars, anVars, tdVars, mdVars, kwVars, opVars, twVars, taVars, schVars, ciVars>>

SpecCallAIInit == FanoutIdle /\ WorkflowIdle /\ CallAIInit /\ MediaIdle /\ AdapterIdle /\ AnalyticsIdle /\ TrendsIdle /\ BatchIdle /\ KeywordsIdle /\ OptimizeIdle /\ TweetIdle /\ TotalsIdle /\ SchedulerIdle /\ ContentIdIdle

SpecCallAI == SpecCallAIInit /\ [][CallAINext]_vars

\* One call of create_video, with the generate_voiceover it makes.
MediaNext ==
    \/ CreateVideoBegin /\ UNCHANGED <<foVars, wfVars, aiVars, adVars, anVars, tdVars, mdVars, kwVars, opVars, twVars, taVars, schVars, ciVars>>
    \/ TryTTS /\ UNCHANGED <<foVars, wfVars, aiVars, adVars, anVars, tdVars, mdVars, kwVars, opVars, twVars, taVars, schVars, ciVars>>
    \/ TTSExhausted /\ UNCHANGED <<foVars, wfVars, aiVars, adVars, anVars, tdVars, mdVars, kwVars, opVars, twVars, taVars, schVars, ciVars>>
    \/ VoiceoverCheck /\ UNCHANGED <<foVars, wfVars, aiVars, adVars, anVars, tdVars, mdVars, kwVars, opVars, twVars, taVars, schVars, ciVars>>
    \/ Probe /\ UNCHANGED <<foVars, wfVars, aiVars, adVars, anVars, tdVars, mdVars, kwVars, opVars, twVars, taVars, schVars, ciVars>>
    \/ FetchStockVideos /\ UNCHANGED <<foVars, wfVars, aiVars, adVars, anVars, tdVars, mdVars, kwVars, opVars, twVars, taVars, schVars, ciVars>>
    \/ CreateSlideshow /\ UNCHANGED <<foVars, wfVars, aiVars, adVars, anVars, tdVars, mdVars, kwVars, opVars, twVars, taVars, schVars, ciVars>>
    \/ Concatenate /\ UNCHANGED <<foVars, wfVars, aiVars, adVars, anVars, tdVars, mdVars, kwVars, opVars, twVars, taVars, schVars, ciVars>>
    \/ SetAudio /\ UNCHANGED <<foVars, wfVars, aiVars, adVars, anVars, tdVars, mdVars, kwVars, opVars, twVars, taVars, schVars, ciVars>>
    \/ AddCaptions /\ UNCHANGED <<foVars, wfVars, aiVars, adVars, anVars, tdVars, mdVars, kwVars, opVars, twVars, taVars, schVars, ciVars>>
    \/ AddBranding /\ UNCHANGED <<foVars, wfVars, aiVars, adVars, anVars, tdVars, mdVars, kwVars, opVars, twVars, taVars, schVars, ciVars>>
    \/ Export /\ UNCHANGED <<foVars, wfVars, aiVars, adVars, anVars, tdVars, mdVars, kwVars, opVars, twVars, taVars, schVars, ciVars>>
    \/ Cleanup /\ UNCHANGED <<foVars, wfVars, aiVars, adVars, anVars, tdVars, mdVars, kwVars, opVars, twVars, taVars, schVars, ciVars>>

SpecMediaInit == FanoutIdle /\ WorkflowIdle /\ CallAIIdle /\ MediaInit /\ AdapterIdle /\ AnalyticsIdle /\ TrendsIdle /\ BatchIdle /\ KeywordsIdle /\ OptimizeIdle /\ TweetIdle /\ TotalsIdle /\ SchedulerIdle /\ ContentIdIdle

SpecMedia == SpecMediaInit /\ [][MediaNext]_vars

\* One call of upload() on one platform adapter.
AdapterNext ==
    \/ UploadBegin /\ UNCHANGED <<foVars, wfVars, aiVars, mcVars, anVars, tdVars, mdVars, kwVars, opVars, twVars, taVars, schVars, ciVars>>
    \/ Authenticate /\ UNCHANGED <<foVars, wfVars, aiVars, mcVars, anVars, tdVars, mdVars, kwVars, opVars, twVars, taVars, schVars, ciVars>>
    \/ Validate /\ UNCHANGED <<foVars, wfVars, aiVars, mcVars, anVars, tdVars, mdVars, kwVars, opVars, twVars, taVars, schVars, ciVars>>
    \/ SendRequest /\ UNCHANGED <<foVars, wfVars, aiVars, mcVars, anVars, tdVars, mdVars, kwVars, opVars, twVars, taVars, schVars, ciVars>>

SpecAdapterInit == FanoutIdle /\ WorkflowIdle /\ CallAIIdle /\ MediaIdle /\ AdapterInit /\ AnalyticsIdle /\ TrendsIdle /\ BatchIdle /\ KeywordsIdle /\ OptimizeIdle /\ TweetIdle /\ TotalsIdle /\ SchedulerIdle /\ ContentIdIdle

SpecAdapter == SpecAdapterInit /\ [][AdapterNext]_vars

\* Any sequence of update_analytics calls on one database.
AnalyticsNext ==
    \E u \in UploadIds, stats \in StatsInputs :
       UpdateAnalytics(u, stats) /\ UNCHANGED <<foVars, wfVars, aiVars, mcVars, adVars, tdVars, mdVars, kwVars, opVars, twVars, taVars, schVars, ciVars>>

SpecAnalyticsInit ==
    FanoutIdle /\ WorkflowIdle /\ CallAIIdle /\ MediaIdle /\ AdapterIdle /\ AnalyticsInit /\ TrendsIdle /\ BatchIdle /\ KeywordsIdle /\ OptimizeIdle /\ TweetIdle /\ TotalsIdle /\ SchedulerIdle /\ ContentIdIdle

SpecAnalytics == SpecAnalyticsInit /\ [][AnalyticsNext]_vars

\* One call of get_fashion_trends.
TrendsNext ==
    \/ QueryReddit /\ UNCHANGED <<foVars, wfVars, aiVars, mcVars, adVars, anVars, mdVars, kwVars, opVars, twVars, taVars, schVars, ciVars>>
    \/ QueryGoogle /\ UNCHANGED <<foVars, wfVars, aiVars, mcVars, adVars, anVars, mdVars, kwVars, opVars, twVars, taVars, schVars, ciVars>>
    \/ QueryTwitter /\ UNCHANGED <<foVars, wfVars, aiVars, mcVars, adVars, anVars, mdVars, kwVars, opVars, twVars, taVars, schVars, ciVars>>
    \/ QueryTikTok /\ UNCHANGED <<foVars, wfVars, aiVars, mcVars, adVars, anVars, mdVars, kwVars, opVars, twVars, taVars, schVars, ciVars>>
    \/ FinishTrends /\ UNCHANGED <<foVars, wfVars, aiVars, mcVars, adVars, anVars, mdVars, kwVars, opVars, twVars, taVars, schVars, ciVars>>

SpecTrendsInit ==
    FanoutIdle /\ WorkflowIdle /\ CallAIIdle /\ MediaIdle /\ AdapterIdle /\ AnalyticsIdle /\ TrendsInit /\ BatchIdle /\ KeywordsIdle /\ OptimizeIdle /\ TweetIdle /\ TotalsIdle /\ SchedulerIdle /\ ContentIdIdle

SpecTrends == SpecTrendsInit /\ [][TrendsNext]_vars

\* _deduplicate_trends applied to each list of trends of the model.
DedupNext ==
    CallDeduplicateTrends /\ UNCHANGED <<foVars, wfVars, aiVars, mcVars, adVars, anVars, mdVars, kwVars, opVars, twVars, taVars, schVars, ciVars>>

SpecDedupInit ==
    FanoutIdle /\ WorkflowIdle /\ CallAIIdle /\ MediaIdle /\ AdapterIdle /\ AnalyticsIdle /\ DedupInit /\ BatchIdle /\ KeywordsIdle /\ OptimizeIdle /\ TweetIdle /\ TotalsIdle /\ SchedulerIdle /\ ContentIdIdle

SpecDedup == SpecDedupInit /\ [][DedupNext]_vars

\* _generate_fallback_trends applied to each num_trends of the model.
FallbackNext ==
    CallGenerateFallbackTrends /\ UNCHANGED <<foVars, wfVars, aiVars, mcVars, adVars, anVars, mdVars, kwVars, opVars, twVars, taVars, schVars, ciVars>>

SpecFallbackInit ==
    FanoutIdle /\ WorkflowIdle /\ CallAIIdle /\ MediaIdle /\ AdapterIdle /\ AnalyticsIdle /\ FallbackInit /\ BatchIdle /\ KeywordsIdle /\ OptimizeIdle /\ TweetIdle /\ TotalsIdle /\ SchedulerIdle /\ ContentIdIdle

SpecFallback == SpecFallbackInit /\ [][FallbackNext]_vars

BatchNext ==
    \/ BatchGenerateScript /\ UNCHANGED <<foVars, wfVars, aiVars, mcVars, adVars, anVars, tdVars, kwVars, opVars, twVars, taVars, schVars, ciVars>>
    \/ BatchGenerateMetadata /\ UNCHANGED <<foVars, wfVars, aiVars, mcVars, adVars, anVars, tdVars, kwVars, opVars, twVars, taVars, schVars, ciVars>>
    \/ BatchReturn /\ UNCHANGED <<foVars, wfVars, aiVars, mcVars, adVars, anVars, tdVars, kwVars, opVars, twVars, taVars, schVars, ciVars>>

SpecBatchInit ==
    FanoutIdle /\ WorkflowIdle /\ CallAIIdle /\ MediaIdle /\ AdapterIdle /\ AnalyticsIdle /\ TrendsIdle /\ BatchInit /\ KeywordsIdle /\ OptimizeIdle /\ TweetIdle /\ TotalsIdle /\ SchedulerIdle /\ ContentIdIdle

SpecBatch == SpecBatchInit /\ [][BatchNext]_vars

KeywordsNext ==
    \/ CallExtractKeywords /\ UNCHANGED <<foVars, wfVars, aiVars, mcVars, adVars, anVars, tdVars, mdVars, opVars, twVars, taVars, schVars, ciVars>>
    \/ CallExtractKeywordsAgain /\ UNCHANGED <<foVars, wfVars, aiVars, mcVars, adVars, anVars, tdVars, mdVars, opVars, twVars, taVars, schVars, ciVars>>

SpecKeywordsInit ==
    FanoutIdle /\ WorkflowIdle /\ CallAIIdle /\ MediaIdle /\ AdapterIdle /\ AnalyticsIdle /\ TrendsIdle /\ BatchIdle /\ KeywordsInit /\ OptimizeIdle /\ TweetIdle /\ TotalsIdle /\ SchedulerIdle /\ ContentIdIdle

SpecKeywords == SpecKeywordsInit /\ [][KeywordsNext]_vars

OptimizeNext ==
    CallOptimizeForPlatform /\ UNCHANGED <<foVars, wfVars, aiVars, mcVars, adVars, anVars, tdVars, mdVars, kwVars, twVars, taVars, schVars, ciVars>>

SpecOptimizeInit ==
    FanoutIdle /\ WorkflowIdle /\ CallAIIdle /\ MediaIdle /\ AdapterIdle /\ AnalyticsIdle /\ TrendsIdle /\ BatchIdle /\ KeywordsIdle /\ OptimizeInit /\ TweetIdle /\ TotalsIdle /\ SchedulerIdle /\ ContentIdIdle

SpecOptimize == SpecOptimizeInit /\ [][OptimizeNext]_vars

TweetNext ==
    CreateTweet /\ UNCHANGED <<foVars, wfVars, aiVars, mcVars, adVars, anVars, tdVars, mdVars, kwVars, opVars, taVars, schVars, ciVars>>

SpecTweetInit ==
    FanoutIdle /\ WorkflowIdle /\ CallAIIdle /\ MediaIdle /\ AdapterIdle /\ AnalyticsIdle /\ TrendsIdle /\ BatchIdle /\ KeywordsIdle /\ OptimizeIdle /\ TweetInit /\ TotalsIdle /\ SchedulerIdle /\ ContentIdIdle

SpecTweet == SpecTweetInit /\ [][TweetNext]_vars

\* Calls of update_analytics and get_total_analytics on one store.
TotalsNext ==
    \/ \E u \in UploadIds, stats \in StatsInputs :
          UpdateAnalytics(u, stats) /\ DropTotals /\ UNCHANGED <<foVars, wfVars, aiVars, mcVars, adVars, tdVars, mdVars, kwVars, opVars, twVars, schVars, ciVars>>
    \/ GetTotalAnalytics /\ UNCHANGED anVars /\ UNCHANGED <<foVars, wfVars, aiVars, mcVars, adVars, tdVars, mdVars, kwVars, opVars, twVars, schVars, ciVars>>

SpecTotalsInit ==
    FanoutIdle /\ WorkflowIdle /\ CallAIIdle /\ MediaIdle /\ AdapterIdle /\ AnalyticsInit /\ TrendsIdle /\ BatchIdle /\ KeywordsIdle /\ OptimizeIdle /\ TweetIdle /\ TotalsInit /\ SchedulerIdle /\ ContentIdIdle

SpecTotals == SpecTotalsInit /\ [][TotalsNext]_vars

SchedulerNext ==
    \/ RunPending /\ UNCHANGED <<foVars, wfVars, aiVars, mcVars, adVars, anVars, tdVars, mdVars, kwVars, opVars, twVars, taVars, ciVars>>
    \/ KeyboardInterrupt /\ UNCHANGED <<foVars, wfVars, aiVars, mcVars, adVars, anVars, tdVars, mdVars, kwVars, opVars, twVars, taVars, ciVars>>

SpecSchedulerInit ==
    FanoutIdle /\ WorkflowIdle /\ CallAIIdle /\ MediaIdle /\ AdapterIdle /\ AnalyticsIdle /\ TrendsIdle /\ BatchIdle /\ KeywordsIdle /\ OptimizeIdle /\ TweetIdle /\ TotalsIdle /\ SchedulerInit /\ ContentIdIdle

SpecScheduler == SpecSchedulerInit /\ [][SchedulerNext]_vars

ContentIdNext ==
    CallExtractContentId /\ UNCHANGED <<foVars, wfVars, aiVars, mcVars, adVars, anVars, tdVars, mdVars, kwVars, opVars, twVars, taVars, schVars>>

SpecContentIdInit ==
    FanoutIdle /\ WorkflowIdle /\ CallAIIdle /\ MediaIdle /\ AdapterIdle /\ AnalyticsIdle /\ TrendsIdle /\ BatchIdle /\ KeywordsIdle /\ OptimizeIdle /\ TweetIdle /\ TotalsIdle /\ SchedulerIdle /\ ContentIdInit

SpecContentId == SpecContentIdInit /\ [][ContentIdNext]_vars

(***************************************************************************)
(* Properties                                                              *)
(***************************************************************************)

\* The events of the workflow history that call the operation op, in order.
CallsOf(op) == SelectSeq(trace, LAMBDA e : e.op = op)

\* A provider response that carries non-empty output.
HasOutput(resp) == resp \in Contents /\ Strip(resp) /= ""

C2_EveryPackageIsAttempted ==
    LET cv == CallsOf("create_video")
    IN /\ Len(cv) <= batch
       /\ \A j \in 1..Len(cv) : cv[j].pkg = j
       /\ (batch > 0 /\ wfPc \in {"summary", "returned", "raised"}) => Len(cv) = batch

\* C2 witness: a run over three packages has returned; create_video returned
\* false for the first, the publish of the second raised, and create_video
\* was still called for the third.
C2_Witness ==
    /\ wfPc = "returned"
    /\ batch = 3
    /\ Call("create_video", 1, "false") \in Range(trace)
    /\ Call("upload_to_all", 2, "raise") \in Range(trace)
    /\ Call("create_video", 3, "true") \in Range(trace)

\* C3 (SpecWorkflow): when trend detection returned no trends the run ends
\* there and generate_batch_content is never called; when content generation
\* returned no packages the run ends there and create_video, upload_to_all,
\* save_video and save_upload are never called.
C3_EmptyInputAborts ==
    /\ trends = 0 => CallsOf("generate_batch_content") = <<>>
    /\ (trends = 0 /\ Call("get_fashion_trends", 0, "ok") \in Range(trace)) =>
          wfPc = "returned" /\ Len(trace) = 1
    /\ batch = 0 =>
          \A k \in 1..Len(trace) :
             trace[k].op \notin {"create_video", "upload_to_all", "save_video", "save_upload"}
    /\ (batch = 0 /\ Call("generate_batch_content", 0, "ok") \in Range(trace)) =>
          wfPc = "returned" /\ trace[Len(trace)].op = "generate_batch_content"

\* C3 witness: trends were found and saved, content generation returned an
\* empty batch, and the run has ended.
C3_Witness ==
    /\ wfPc = "returned"
    /\ trends = 2
    /\ batch = 0
    /\ Call("generate_batch_content", 0, "ok") \in Range(trace)

\* C4 (SpecWorkflow): daily_workflow never lets an exception out: at no
\* position does an exception of a collaborator reach the caller.
C4_NeverPropagates == wfPc /= "raised"

\* C4 witness: the run has returned although a collaborator raised inside
\* the loop and get_total_analytics raised after it.
C4_Witness ==
    /\ wfPc = "returned"
    /\ Call("save_video", 1, "raise") \in Range(trace)
    /\ Call("get_total_analytics", 0, "raise") \in Range(trace)

\* C5 (SpecCallAI): the providers are the configured ones in the order Groq,
\* OpenAI, HuggingFace, Ollama; the k-th request of a _call_ai goes to the
\* k-th provider (so each provider is called at most once and in order);
\* every request but the last delivered no output (a provider is called only
\* after the one before it failed, and none after one succeeded); and the
\* result is None only when every provider was called and none delivered
\* output.
C5_ProvidersInOrder ==
    /\ providers = FilterSeq(<<"groq", "openai", "huggingface", "ollama">>, Range(providers))
    /\ Len(aiCalls) <= Len(providers)
    /\ \A k \in 1..Len(aiCalls) : aiCalls[k].type = providers[k]
    /\ \A k \in 1..(Len(aiCalls) - 1) : ~HasOutput(aiCalls[k].resp)
    /\ (aiPc \in {"returned", "done"} /\ aiResult = NULL) =>
          /\ Len(aiCalls) = Len(providers)
          /\ \A k \in 1..Len(aiCalls) : ~HasOutput(aiCalls[k].resp)

\* C5 witness: four providers are configured, the first two failed, the
\* third delivered the script and the fourth was not called.
C5_Witness ==
    /\ aiPc = "done"
    /\ Len(providers) = 4
    /\ Len(aiCalls) = 3
    /\ aiCalls[1].resp = "raise"
    /\ aiResult = "script"
    /\ script = "script"

\* C6 (SpecCallAI): a provider whose response is empty or white space only
\* has not succeeded: when it is not the last provider the next one is
\* called, and the fallback template is used only after every provider was
\* called.
C6_EmptyOutputAdvances ==
    aiPc \in {"returned", "done"} =>
       /\ \A k \in 1..Len(aiCalls) :
             (aiCalls[k].resp \in Contents /\ Strip(aiCalls[k].resp) = "" /\ k < Len(providers))
                => Len(aiCalls) > k
       /\ script = FALLBACK => Len(aiCalls) = Len(providers)

\* C7 (SpecMedia): generate_voiceover calls gtts, edge, coqui in this order,
\* calls no provider after one that produced the file, reports failure only
\* after all three were called and failed (a call that completes without
\* producing the file counts as failed), and after a reported failure
\* create_video returns false with no later stage run.
C7_VoiceoverChain ==
    /\ \A k \in 1..Len(ttsCalls) : ttsCalls[k].provider = TTSProviders[k]
    /\ \A k \in 1..(Len(ttsCalls) - 1) : ttsCalls[k].outcome /= "file"
    /\ voiceover = "false" =>
          /\ Len(ttsCalls) = Len(TTSProviders)
          /\ \A k \in 1..Len(ttsCalls) : ttsCalls[k].outcome /= "file"
    /\ (voiceover = "false" /\ mcPc = "returned") =>
          mcResult = "false" /\ stagesRun = <<"voiceover">>

\* C8 as claimed (SpecMedia): create_video returns true only if no stage
\* failed: a failure in any stage, captioning and branding included, makes it
\* return false.
C8_AnyStageFailureReturnsFalse ==
    mcPc = "returned" =>
       /\ mcResult \in {"true", "false"}
       /\ stagesFailed /= {} => mcResult = "false"

\* C8 as amended (SpecMedia): create_video ends by returning true or false;
\* it returns true only if the voiceover was produced, the audio was opened,
\* at least one visual asset was obtained, every stage was run, and
\* composition, audio attachment and export raised nothing; a failure of
\* captioning or branding is caught inside that stage and does not change
\* the result.
C8_FatalStageFailureReturnsFalse ==
    mcPc = "returned" =>
       /\ mcResult \in {"true", "false"}
       /\ mcResult = "true" =>
             /\ voiceover = "true"
             /\ clips > 0
             /\ stagesRun = Stages
             /\ stagesFailed \subseteq {"captions", "branding"}
       /\ stagesFailed \cap {"voiceover", "probe", "concat", "set_audio", "export"} /= {}
             => mcResult = "false"

\* C8 witness: captioning and branding both failed and create_video
\* returned true.
C8_Witness ==
    /\ mcPc = "returned"
    /\ mcResult = "true"
    /\ stagesFailed = {"captions", "branding"}

\* C9 (SpecMedia): whenever create_video has returned, the temporary audio
\* file is gone and every clip and decoder it opened is closed.
C9_ResourcesReleased ==
    mcPc = "returned" => ~audioExists /\ openRes = {}

\* C10 (SpecAdapter): when the adapter has to authenticate and its
\* authentication fails, or when the video fails validation, upload does not
\* raise, sends no upload request and returns None.
C10_FailedAuthOrValidationReturnsNull ==
    ((~adSession /\ adAuth /= "ok") \/ "validation_failed" \in adEvents) =>
       /\ adPc \notin {"send", "raised"}
       /\ "request" \notin adEvents
       /\ adResult = NULL

\* C11 (SpecFanout): the results dict of upload_to_all is written only by
\* the thread that runs the as_completed loop, one platform key per step:
\* every write adds the key of one adapter that had no entry yet and leaves
\* the other entries as they were, so each key is written exactly once and
\* no two writes coincide; and whatever order the workers finish in, the
\* mapping that is returned is the one determined by what each adapter did.
C11_OneWritePerKeyAnyOrder ==
    [][ /\ results' /= results =>
              \E p \in uploaders \ DOMAIN results :
                 /\ foPc = "collect"
                 /\ futures[p] = "finished"
                 /\ DOMAIN results' = DOMAIN results \cup {p}
                 /\ \A q \in DOMAIN results : results'[q] = results[q]
        /\ foPc' = "returned" =>
              results' = [p \in uploaders |->
                            IF behaviour[p] = "url" THEN UrlOf(p) ELSE NULL]
      ]_vars

\* C11 witness: the workers finished out of submission order: the last
\* adapter's result is stored while the first adapter's worker still runs.
C11_Witness ==
    /\ foPc = "collect"
    /\ Cardinality(uploaders) = 5
    /\ futures["youtube"] = "pending"
    /\ futures["twitter"] = "finished"
    /\ "facebook" \in DOMAIN results
    /\ "tiktok" \in DOMAIN results
    /\ "instagram" \notin DOMAIN results

\* C13 (SpecWorkflow): once the loop over the publisher's result mapping
\* is over for a video, every platform of the mapping has exactly one
\* uploads row for that video, with status 'success' exactly when the
\* mapping's url is non-null and 'failed' otherwise; and no video ever has
\* two rows for one platform.
C13_OneUploadRowPerPlatform ==
    /\ \A r1, r2 \in uploadRows :
          (r1.video = r2.video /\ r1.platform = r2.platform) => r1 = r2
    /\ (wfPc = "save_uploads" /\ saveIdx > Len(UploadItems)) =>
          \A p \in DOMAIN uploadResults :
             \E r \in uploadRows :
                /\ r.video = videoId
                /\ r.platform = p
                /\ r.url = uploadResults[p]
                /\ r.status = (IF uploadResults[p] /= NULL THEN "success" ELSE "failed")

\* C12 (SpecAnalytics): after any sequence of update_analytics calls the
\* analytics table holds no row for an upload id that was never updated and
\* exactly one row for each upload id that was, and that row's views, likes,
\* comments and shares are the values of the most recent call for that id
\* (0 for a key the call did not give); the number of rows is the number of
\* upload ids updated so far, however many calls were made.
C12_AnalyticsUpsert ==
    /\ \A u \in UploadIds :
          LET rows == {r \in anTable : r.upload_id = u}
          IN IF u \in DOMAIN anLast
             THEN /\ Cardinality(rows) = 1
                  /\ \A r \in rows :
                        /\ r.values.views = Get(anLast[u], "views", 0)
                        /\ r.values.likes = Get(anLast[u], "likes", 0)
                        /\ r.values.comments = Get(anLast[u], "comments", 0)
                        /\ r.values.shares = Get(anLast[u], "shares", 0)
             ELSE rows = {}
    /\ Cardinality(anTable) = Cardinality(DOMAIN anLast)
    /\ \A u \in UploadIds : anCalls[u] /= "none" <=> u \in DOMAIN anLast

\* C12 witness: upload 1 was updated more than once, last with views 200,
\* upload 2 once; the table has two rows and upload 1's row holds views 200.
C12_Witness ==
    /\ anCalls[1] = "many"
    /\ anCalls[2] = "once"
    /\ Cardinality(anTable) = 2
    /\ anNextId = 3
    /\ \E r \in anTable :
          r.upload_id = 1 /\ r.values.views = 200 /\ r.values.likes = 0

\* Case folding of the words of the model, for the statements about titles
\* that are identical ignoring case.
FoldCase(w) == IF w \in {"Red", "red"} THEN "red" ELSE IF w \in {"Dress", "dress"} THEN "dress" ELSE w

\* Two titles are identical ignoring case.
SameIgnoringCase(t1, t2) ==
    Len(t1) = Len(t2) /\ \A k \in 1..Len(t1) : FoldCase(t1[k]) = FoldCase(t2[k])

\* The words of a title, ignoring case.
WordSet(t) == {FoldCase(t[k]) : k \in 1..Len(t)}

\* The word-overlap ratio |new words & accepted words| / |new words| of a
\* new title with an accepted one is strictly greater than 0.7.
RatioAbove70(new, accepted) ==
    /\ WordSet(new) /= {}
    /\ 10 * Cardinality(WordSet(new) \cap WordSet(accepted)) > 7 * Cardinality(WordSet(new))

\* The title at position i of all_trends.
TitleAt(i) == allTrends[i].title

\* C14 (SpecDedup): the output of _deduplicate_trends is an order-preserving
\* subsequence of its input (strictly increasing positions of the input),
\* and of two input trends whose titles are identical ignoring case the
\* later one is never in the output: a trend of the output is the first of
\* the input with its title.
C14_FirstOfEqualTitlesWins ==
    tdPc = "dedup_done" =>
       /\ \A k \in 1..Len(result) : result[k] \in 1..Len(allTrends)
       /\ \A k \in 1..(Len(result) - 1) : result[k] < result[k + 1]
       /\ \A i, j \in 1..Len(allTrends) :
             (i < j /\ SameIgnoringCase(TitleAt(i), TitleAt(j)))
                => j \notin Range(result)

\* C14 witness: the input holds "Red Dress", another title, then
\* "red dress"; the output is the first two.
C14_Witness ==
    /\ tdPc = "dedup_done"
    /\ Len(allTrends) = 3
    /\ TitleAt(1) = <<"Red", "Dress">>
    /\ TitleAt(2) = <<"f", "g">>
    /\ TitleAt(3) = <<"red", "dress">>
    /\ result = <<1, 2>>

SourceRank(src) ==
    CASE src = "reddit"        -> 1
      [] src = "google_trends" -> 2
      [] src = "twitter"       -> 3
      [] src = "tiktok"        -> 4
      [] OTHER                 -> 5

\* C16 (SpecTrends): get_fashion_trends(n) returns at most n records, in
\* non-increasing score order, records of equal score in the order in which
\* they were collected (all_trends holds the sources' records in the order
\* forum, search trends, social search, scrape), and no returned record is,
\* by the deduplication rule, a duplicate of a record returned before it
\* (same title ignoring case, or overlap ratio above 0.7 with it).
C16_TopTrendsSortedDeduplicated ==
    /\ \A i, j \in 1..Len(allTrends) :
          i < j => SourceRank(allTrends[i].source) <= SourceRank(allTrends[j].source)
    /\ tdPc = "returned" =>
          /\ Len(result) <= numTrends
          /\ \A k, l \in 1..Len(result) :
                k < l =>
                   /\ allTrends[result[k]].score >= allTrends[result[l]].score
                   /\ allTrends[result[k]].score = allTrends[result[l]].score
                         => result[k] < result[l]
                   /\ ~SameIgnoringCase(TitleAt(result[k]), TitleAt(result[l]))
                   /\ ~RatioAbove70(TitleAt(result[l]), TitleAt(result[k]))

\* C16 witness: three sources gave one record each; the forum's and the
\* social search's have equal scores and come back in that order, and the
\* search-trend record, a case variant of the social one with a lower
\* score, was removed.
C16_Witness ==
    /\ tdPc = "returned"
    /\ numTrends = 2
    /\ Len(allTrends) = 3
    /\ allTrends[1] = Trend("reddit", <<"a", "b", "c">>, 100)
    /\ allTrends[2] = Trend("google_trends", <<"Red", "Dress">>, 80)
    /\ allTrends[3] = Trend("twitter", <<"red", "dress">>, 100)
    /\ result = <<1, 3>>

\* C17 (SpecTrends): a source that is unconfigured or that raised while it
\* was queried has no record in all_trends, and the records that are
\* returned come from the sources that answered (or from the fallback).
C17_FailedSourceContributesNothing ==
    /\ \A s \in DOMAIN srcStatus :
          srcStatus[s] \in {"unconfigured", "raised"} =>
             \A i \in 1..Len(allTrends) : allTrends[i].source /= s
    /\ tdPc = "returned" =>
          \A k \in 1..Len(result) :
             \/ allTrends[result[k]].source = "fallback"
             \/ srcStatus[allTrends[result[k]].source] = "ok"

\* C18 (SpecFallback): _generate_fallback_trends(n) returns exactly
\* min(n, number of templates) records, each with source 'fallback', a score
\* between 100 and 500 and a non-empty keywords list, which is
\* ['fashion', 'style', 'outfit'] when the extraction finds no keyword in
\* the title.
C18_FallbackTrendsCount ==
    tdPc = "fallback_done" =>
       /\ Len(allTrends) = (IF numTrends < Len(TrendTemplates)
                            THEN numTrends ELSE Len(TrendTemplates))
       /\ \A k \in 1..Len(allTrends) :
             /\ allTrends[k].source = "fallback"
             /\ allTrends[k].score >= 100
             /\ allTrends[k].score <= 500
             /\ Len(allTrends[k].keywords) > 0
             /\ Len(ExtractKeywords(allTrends[k].title)) = 0
                   => allTrends[k].keywords = <<"fashion", "style", "outfit">>
             /\ \E t \in 1..Len(TrendTemplates) : allTrends[k].title = TrendTemplates[t]

\* C18 witness: more records were requested than there are templates; one
\* record per template came back, one of them with the default keywords,
\* one with the lowest and one with the highest score.
C18_Witness ==
    /\ tdPc = "fallback_done"
    /\ numTrends > Len(TrendTemplates)
    /\ Len(allTrends) = Len(TrendTemplates)
    /\ \E k \in 1..Len(allTrends) :
          /\ allTrends[k].title = <<"petite", "styling", "hacks">>
          /\ allTrends[k].keywords = <<"fashion", "style", "outfit">>
    /\ \E k \in 1..Len(allTrends) : allTrends[k].score = 100
    /\ \E k \in 1..Len(allTrends) : allTrends[k].score = 500


\* The package the last iteration of generate_batch_content appended, while
\* mdScriptAI and mdMetaAI still hold what _call_ai returned for it.
LastPackageAppended ==
    /\ mdPc \in {"script", "returned"}
    /\ Len(contentBatch) > 0

LastPackage == contentBatch[Len(contentBatch)]

\* C19: when every text-generation provider fails (_call_ai returns None for
\* the script prompt and for the metadata prompt), the script contains the
\* literal trend title, and the metadata has title, description and tags, all
\* present and non-empty, for every trend and script.
C19_FallbackContentComplete ==
    (LastPackageAppended /\ mdScriptAI.none /\ mdMetaAI.none) =>
        /\ Contains(LastPackage.script, LastPackage.trend.title)
        /\ {"title", "description", "tags"} \subseteq DOMAIN LastPackage.metadata
        /\ Len(LastPackage.metadata.title) > 0
        /\ Len(LastPackage.metadata.description) > 0
        /\ Len(LastPackage.metadata.tags) > 0

\* C20: every package of generate_batch_content has a metadata title of at
\* most 60 characters and, when the metadata has a description, a description
\* of at most 200 characters, whether the metadata is the provider's JSON
\* object or the fallback.
C20_MetadataLengthLimits ==
    \A i \in 1..Len(contentBatch) :
        LET metadata == contentBatch[i].metadata
        IN /\ "title" \in DOMAIN metadata
           /\ Len(metadata.title) <= MaxTitleChars
           /\ "description" \in DOMAIN metadata =>
                 Len(metadata.description) <= MaxDescriptionChars


\* A text made only of URLs and @mentions: every blank-separated token of it
\* starts with http or @ and goes on.
OnlyUrlsAndMentions(text) ==
    \A i \in 1..Len(text) :
        (IsNonSpace(text[i]) /\ (i = 1 \/ text[i - 1] = " ")) =>
            MatchEnd(LowerText(text), i) > i /\ text[i] /= "#"

\* C21: _extract_keywords returns at most 5 keywords, each longer than 3
\* characters and matching the fashion vocabulary, none from a text made of
\* URLs and @mentions only, and extracting again from the keywords joined by
\* spaces returns the same list.
C21_ExtractKeywordsIdempotent ==
    (kwPc = "again") =>
        /\ Len(kwOut) <= MaxKeywords
        /\ \A i \in 1..Len(kwOut) : Len(kwOut[i]) > 3 /\ IsFashionRelated(kwOut[i])
        /\ OnlyUrlsAndMentions(kwText) => kwOut = <<>>
        /\ kwAgain = kwOut


\* C22: for every tags list, the TikTok description adapted from a
\* 200-character description has at most 103 characters, and the Twitter
\* description adapted from a 300-character description has at most 250
\* characters before the hashtags are appended and at most 280 after.
C22_PlatformLengthCaps ==
    (opPc = "returned") =>
        /\ (opPlatform = "tiktok" /\ Len(opMetadata.description) = 200) =>
              Len(optimized.description) <= 103
        /\ (opPlatform = "twitter" /\ Len(opMetadata.description) = 300) =>
              /\ Len(TwitterDesc(opMetadata.description)) <= 250
              /\ Len(optimized.description) <= 280


RECURSIVE WithHashtags(_, _, _)
\* The text followed by " #tag" for the first k tags, in order.
WithHashtags(text, tags, k) ==
    IF k = 0 THEN text
    ELSE WithHashtag(WithHashtags(text, tags, k - 1), tags[k])

\* C23: the text passed to create_tweet has at most 280 characters, and it is
\* the description cut to 280 followed by the hashtags of a prefix of the tags
\* list, in order, the prefix ending before the first tag that would push the
\* text past 280.
C23_TweetWithinLimitPrefixOfTags ==
    \A n \in 1..Len(createdTweet) :
        LET text == createdTweet[n]
            desc == Slice(Get(twMetadata, "description", <<>>), TweetLimit)
            tags == Get(twMetadata, "tags", <<>>)
        IN /\ Len(text) <= 280
           /\ \E k \in 0..Len(tags) :
                 /\ text = WithHashtags(desc, tags, k)
                 /\ k < Len(tags) =>
                       Len(WithHashtags(desc, tags, k + 1)) > 280

\* A tweet that stops at a tag that does not fit although the tag after it
\* would.
C23_Witness ==
    /\ twPc = "tweeted"
    /\ twMetadata = [description |-> Fill("A", 270),
                     tags |-> <<Fill("a", 1), Fill("c", 20), Fill("a", 1)>>]
    /\ createdTweet = <<Fill("A", 270) \o <<" ", "#", "a">> >>


RECURSIVE SumOver(_, _)
\* The sum of stats[column] (0 when the key is missing) over the upload ids
\* of a set.
SumOver(ids, column) ==
    IF ids = {} THEN 0
    ELSE LET u == CHOOSE x \in ids : TRUE
         IN Get(anLast[u], column, 0) + SumOver(ids \ {u}, column)

\* C24: get_total_analytics returns the sums of views, likes, comments and
\* shares over the rows of the store (one row per upload id, holding the
\* stats of its latest update) and the number of distinct upload ids; on the
\* empty store every total is 0.
C24_TotalsAreSums ==
    (taPc = "returned") =>
        /\ totals.total_views = SumOver(DOMAIN anLast, "views")
        /\ totals.total_likes = SumOver(DOMAIN anLast, "likes")
        /\ totals.total_comments = SumOver(DOMAIN anLast, "comments")
        /\ totals.total_shares = SumOver(DOMAIN anLast, "shares")
        /\ totals.total_uploads = Cardinality({r.upload_id : r \in anTable})
        /\ anTable = {} => totals = [total_views |-> 0, total_likes |-> 0,
                                     total_comments |-> 0, total_shares |-> 0,
                                     total_uploads |-> 0]

\* Totals over two rows, one of them updated twice.
C24_Witness ==
    /\ taPc = "returned"
    /\ Cardinality(anTable) = 2
    /\ \E u \in UploadIds : anCalls[u] = "many"
    /\ totals.total_uploads = 2
    /\ totals.total_views = 300
    /\ totals.total_likes = 302


\* C25: in scheduled mode no exception raised by a collaborator during a
\* scheduled job (daily workflow, analytics refresh, weekly report) ends the
\* scheduler loop: the loop is running after every job run, unless the user
\* stopped it.
C25_SchedulerSurvivesJobFailure ==
    schState \in {"off", "running", "stopped"}


\* C26: create_video takes the slideshow path exactly when the stock-video
\* path yields zero clips, and returns false when both paths yield zero
\* clips: fetch_stock_videos is followed by the slideshow iff it returned no
\* clip, the slideshow is created only then, and concatenating zero clips
\* ends create_video with false.
C26_SlideshowIffNoStockClips ==
    [][ /\ (mcPc = "fetch" /\ mcPc' /= "fetch") =>
              ((mcPc' = "slideshow") <=> (clips' = 0))
        /\ (mcPc = "slideshow" /\ mcPc' /= "slideshow") => slideshow'
        /\ (slideshow' /\ ~slideshow) => (mcPc = "slideshow" /\ clips = 0)
        /\ (mcPc = "concat" /\ mcPc' /= "concat" /\ clips = 0) =>
              (mcPc' = "returned" /\ mcResult' = "false")
      ]_vars

\* create_video returned false after both paths gave no clip.
C26_Witness ==
    /\ mcPc = "returned"
    /\ mcResult = "false"
    /\ slideshow
    /\ clips = 0
    /\ "concat" \in stagesFailed


\* The positions of the history at which the call is the given one.
CallsAt(op, k, out) ==
    {i \in 1..Len(trace) : trace[i] = Call(op, k, out)}

\* The id save_video returned for the call at position i of the history: ids
\* are given out in the order of the inserts.
VideoIdAt(i) ==
    Cardinality({j \in 1..i : trace[j].op = "save_video" /\ trace[j].out = "ok"})

\* The id of the uploads row the save_upload call at position i wrote.
UploadIdAt(i) ==
    Cardinality({j \in 1..i : trace[j].op = "save_upload" /\ trace[j].out = "ok"})

\* C27: per package the steps happen in the order assemble, persist video
\* row, publish, persist upload rows: save_video follows a create_video of
\* the package that returned true and precedes its upload_to_all;
\* save_upload follows the return of the package's upload_to_all and its row
\* carries the id of the package's video row; a package whose assembly
\* failed has no video row, no publish call and no upload row.  The history
\* only grows, by one call at a time, so every call is the last call of the
\* history in some state: the property is stated for the last call.
C27_PackageStepsInOrder ==
    Len(trace) > 0 =>
        LET i == Len(trace)
            e == trace[i]
        IN /\ e.op = "save_video" =>
                /\ \E j \in CallsAt("create_video", e.pkg, "true") : j < i
                /\ CallsAt("upload_to_all", e.pkg, "ok") = {}
                /\ CallsAt("upload_to_all", e.pkg, "raise") = {}
           /\ e.op = "upload_to_all" =>
                \E j \in CallsAt("save_video", e.pkg, "ok") : j < i
           /\ e.op = "save_upload" =>
                /\ \E j \in CallsAt("upload_to_all", e.pkg, "ok") : j < i
                /\ e.out = "ok" =>
                      \E j \in CallsAt("save_video", e.pkg, "ok") :
                      \E r \in uploadRows :
                         r.id = UploadIdAt(i) /\ r.video = VideoIdAt(j)
           /\ e.op \in {"save_video", "upload_to_all", "save_upload"} =>
                /\ CallsAt("create_video", e.pkg, "false") = {}
                /\ CallsAt("create_video", e.pkg, "raise") = {}

\* A run whose first package failed to assemble and whose second package was
\* assembled, saved, published and recorded.
C27_Witness ==
    /\ Len(trace) >= 4
    /\ CallsAt("create_video", 1, "false") /= {}
    /\ CallsAt("create_video", 2, "true") /= {}
    /\ CallsAt("save_video", 2, "ok") /= {}
    /\ CallsAt("upload_to_all", 2, "ok") /= {}
    /\ CallsAt("save_upload", 2, "ok") /= {}
    /\ \E r \in uploadRows : r.video = 1


\* C28: the run sleeps between every two consecutive packages: a package
\* other than the last that the loop has left, whether it succeeded or its
\* assembly or publish failed, was followed by the pause before the next
\* package started; no pause follows the last package.
C28_PauseBetweenPackages ==
    /\ \A k \in 1..(batch - 1) :
          pkg > k =>
             \E i \in CallsAt("sleep", k, "ok") :
                \A j \in 1..Len(trace) :
                   (trace[j].op = "create_video" /\ trace[j].pkg = k + 1) => i < j
    /\ batch > 0 => CallsAt("sleep", batch, "ok") = {}


\* C29: for youtube, instagram, twitter and facebook, _extract_content_id
\* applied to the URL the adapter builds for the id X returns exactly X; for
\* a null or empty URL it returns null on every platform.
C29_ContentIdRoundTrip ==
    (ciPc = "extracted") =>
        /\ (ciPlatform \in {"youtube", "instagram", "twitter", "facebook"}
              /\ ciUrl = Str(AdapterUrl(ciPlatform, ciId))) =>
              ciResult = Str(ciId)
        /\ (ciUrl.none \/ ciUrl.text = <<>>) => ciResult = NoneStr

\* The id of an Instagram reel, read back from the URL with its final '/'.
C29_Witness ==
    /\ ciPc = "extracted"
    /\ ciPlatform = "instagram"
    /\ ciId = <<"A", "1">>
    /\ ciUrl = Str(InstagramUrlPrefix \o <<"A", "1", "/">>)
    /\ ciResult = Str(<<"A", "1">>)

\* C30: upload_to_all never raises and returns a mapping with exactly one
\* entry per initialized adapter, for every number of initialized adapters,
\* none included (the empty mapping).
C30_OneEntryPerAdapterNeverRaises ==
    /\ foPc # "raised"
    /\ foPc = "returned" => DOMAIN results = uploaders

=============================================================================
